---- MODULE Spec2Model ----
(***************************************************************************)
(* Stealth extraction engine: BrowserContextManager (src/browser/context.py)*)
(* and ExtractionPipeline (src/extractor/pipeline.py).                      *)
(*                                                                         *)
(* Spec     : the session manager.  Tasks of one asyncio event loop run     *)
(*            extract_with_stealth (runners) or call initialize()/close()   *)
(*            on the shared manager (task "m").  One step of the model is   *)
(*            the code of one task between two awaits.                      *)
(* PipeSpec : calls of ExtractionPipeline.extract, each on a new page, with  *)
(*            the HTTP responses the page receives while a call is suspended.*)
(* ValidatorSpec : calls of the FileValidator predicates (validators.py).   *)
(* RetrySpec : calculate_delay, async_retry and RetryContext (retry.py).    *)
(* FingerprintSpec : FingerprintGenerator.generate (fingerprint.py) and the  *)
(*            human_delay calls of two concurrent attempts, which share the *)
(*            generator of the random module.                               *)
(* HumanSpec : calls of human_delay (utils/humanizer.py).                   *)
(* CountdownSpec : calls of wait_for_countdown (extractor/dom_layer.py).    *)
(* DomStageSpec : the click loop of extract_via_dom (extractor/dom_layer.py).*)
(* JsStageSpec : extract_via_js and extract_terabox_api (js_layer.py).       *)
(* ClickSpec : the click points of human_click and                          *)
(*            click_with_human_behavior, in tenths of a pixel.              *)
(* NetworkSpec : NetworkLayer.on_response on responses whose content-length *)
(*            header is missing, empty or not a number.                     *)
(* HandlerSpec : concurrent calls of handle_url (bot/handlers.py).          *)
(***************************************************************************)
EXTENDS Integers, Sequences, FiniteSets, Bags, TLC

\* ------------------------------------------------------------------ bounds
MaxRetries == 4     \* largest max_retries a runner is started with
MaxFaults  == 2     \* how many awaited library calls may raise in one behaviour
MaxResponses == 2   \* how many HTTP responses reach the page during one extract
MaxAttempts == 3    \* largest RetryConfig.max_attempts
MaxAttemptIndex == 4   \* largest attempt index given to calculate_delay

Runners  == {"r1"}
Tasks    == Runners \cup {"m"}
Payloads == {"u1", "u2"}     \* what a callback result carries (URL or error)
None     == 0                \* Python None
Handle   == 1                \* a reference to the object last created

VARIABLES
  browser,      \* BrowserContextManager._browser : None or Handle
  playwright,   \* BrowserContextManager._playwright : None or Handle
  lock,         \* BrowserContextManager._lock : "free" or the task holding it
  bproc,        \* the browser process last launched
  drv,          \* the Playwright driver last started
  alive,        \* number of launched browser processes that are alive
  running,      \* number of started drivers that are running
  ctx,          \* per runner: the context and page of its current scope
  pc,           \* where each task is suspended
  run,          \* locals of each runner's extract_with_stealth call
  mgr,          \* the call task "m" is making, and how its last call ended
  faults,       \* number of library calls that raised so far
  ppc,          \* ExtractionPipeline.extract: where the call is suspended
  purl,         \* its `url` argument
  listeners,    \* the 'response' listeners attached to the page
  captured,     \* NetworkLayer.captured_urls of the pipeline's and the DOM stage's instance
  calls,        \* the stages invoked so far, in order
  outs,         \* what each invoked stage returned
  checked,      \* the (url, size) pairs given to validate_extracted_url
  presult,      \* the ExtractionResult returned
  clicks,       \* extract_via_dom: `attempt` of its click loop
  nresp,        \* number of responses delivered so far
  pending,      \* on_response calls in flight (awaiting response.all_headers()), a bag
  late,         \* the capture lists seen by the look at the listener after all stages
  val,          \* the call of a FileValidator predicate being made, and what it returned
  calc,         \* the call of calculate_delay being made, and what it returned
  rt,           \* async_retry: locals of one call of the wrapper
  rc,           \* RetryContext: its fields, and the loop that drives it
  nav,          \* what page.goto raised in the network stage of this extract call
  rng,          \* state of the generator of the `random` module (one per process)
  att,          \* per concurrent attempt: its identity and its human_delay draws
  hd,           \* the call of Humanizer.human_delay being made, and what it slept
  cd,           \* DOMLayer.wait_for_countdown: locals of one call, and the clock
  fb,           \* DOMLayer.find_download_button: the page it scans, and its loops
  api,          \* extract_via_js / JSLayer.extract_terabox_api: locals of one call
  clk,          \* a simulated click: the bounding box and the point clicked
  hu,           \* bot handlers: active_extractions and the handle_url tasks
  nl            \* one NetworkLayer instance: its capture list and the responses it saw

mvars == <<browser, playwright, lock, bproc, drv, alive, running, ctx, pc, run, mgr, faults>>
pvars == <<ppc, purl, listeners, captured, calls, outs, checked, presult, clicks, nresp,
          pending, late, nav>>
fvars == <<rng, att, hd, cd>>
rvars == <<val, calc, rt, rc>>
xvars == <<fb, api, clk, hu, nl>>
uvars == <<rvars, fvars, xvars>>
vars  == <<mvars, pvars, uvars>>

CanFault == faults < MaxFaults

\* ================================================================== strings
\* Strings the code searches in (hosts, content types, patterns) are
\* sequences of characters; dictionary keys and labels are plain strings.
Range(s) == {s[i] : i \in DOMAIN s}

\* config.extraction.cdn_patterns
cdn_patterns ==
  {<<"c","d","n","s","t">>, <<"d",".","t","e","r","a","b","o","x">>,
   <<"d","a","t","a",".","t","e","r","a","b","o","x">>,
   <<"d","o","w","n","l","o","a","d",".","t","e","r","a","b","o","x">>,
   <<"c","d","n",".","t","e","r","a","b","o","x">>,
   <<"s","t",".","t","e","r","a","b","o","x">>, <<"d","2",".","t","e","r","a","b","o","x">>,
   <<"d","3",".","t","e","r","a","b","o","x">>, <<"d","4",".","t","e","r","a","b","o","x">>,
   <<"d","5",".","t","e","r","a","b","o","x">>, <<"s","t","r","e","a","m">>,
   <<"d","a","t","a","d","o","w","n">>, <<"n","x","c","d","n">>, <<"d","x","c","d","n">>,
   <<"h","o","t",".","t","e","r","a","b","o","x">>,
   <<"c","o","l","d",".","t","e","r","a","b","o","x">>, <<"j","p","-","s","t","o","r","e">>,
   <<"a","s","i","a","-","s","t","o","r","e">>, <<"u","s","-","s","t","o","r","e">>,
   <<"e","u","-","s","t","o","r","e">>, <<"v","i","d","e","o","-","c","d","n">>,
   <<"f","i","l","e","-","c","d","n">>, <<"m","e","d","i","a","-","c","d","n">>,
   <<"s","t","o","r","a","g","e">>, <<"d","l",".","t","e","r","a","b","o","x">>,
   <<"g","e","t",".","t","e","r","a","b","o","x">>,
   <<"f","e","t","c","h",".","t","e","r","a","b","o","x">>,
   <<"p","a","n",".","t","e","r","a","b","o","x">>,
   <<"p","c","s",".","t","e","r","a","b","o","x">>, <<"c",".","t","e","r","a","b","o","x">>,
   <<"f",".","t","e","r","a","b","o","x">>}
\* config.extraction.signature_params (compared as whole dictionary keys)
signature_params ==
  {"sign", "time", "timestamp", "expires", "expiry", "exp", "token", "auth", "signature",
   "key", "secret", "sig", "fid", "uk", "devuid", "dp-logid", "shareid", "fsid", "rand", "vuk",
   "app_id", "check_blue_name", "clienttype", "channel", "version", "web", "dp-callid", "scene"}
\* config.extraction.supported_domains
supported_domains ==
  {<<"t","e","r","a","b","o","x",".","c","o","m">>,
   <<"1","0","2","4","t","e","r","a",".","c","o","m">>,
   <<"t","e","r","a","b","o","x","a","p","p",".","c","o","m">>,
   <<"4","f","u","n","b","o","x",".","c","o">>,
   <<"m","i","r","r","o","b","o","x",".","c","o","m">>,
   <<"n","e","p","h","o","b","o","x",".","c","o","m">>,
   <<"f","r","e","e","t","e","r","a","b","o","x",".","c","o","m">>,
   <<"m","o","m","e","r","y","b","o","x",".","c","o","m">>,
   <<"t","e","r","a","b","o","x","l","i","n","k",".","c","o","m">>,
   <<"t","e","r","a","f","i","l","e","s","h","a","r","e",".","c","o","m">>,
   <<"t","e","r","a","b","o","x",".","f","u","n">>,
   <<"t","e","r","a","b","o","x",".","a","p","p">>,
   <<"1","0","2","4","t","e","r","a","b","o","x",".","c","o","m">>,
   <<"t","e","r","a","b","o","x","s","h","a","r","e",".","c","o","m">>,
   <<"t","e","r","a","b","o","x",".","t","e","c","h">>,
   <<"g","c","l","o","u","d",".","l","i","v","e">>}
\* NetworkLayer._is_media_response: media_types
media_types ==
  {<<"v","i","d","e","o","/">>, <<"a","u","d","i","o","/">>,
   <<"a","p","p","l","i","c","a","t","i","o","n","/","o","c","t","e","t","-","s","t","r","e","a","m">>,
   <<"a","p","p","l","i","c","a","t","i","o","n","/","x","-","d","o","w","n","l","o","a","d">>,
   <<"a","p","p","l","i","c","a","t","i","o","n","/","f","o","r","c","e","-","d","o","w","n","l","o","a","d">>,
   <<"a","p","p","l","i","c","a","t","i","o","n","/","z","i","p">>,
   <<"a","p","p","l","i","c","a","t","i","o","n","/","x","-","r","a","r">>,
   <<"a","p","p","l","i","c","a","t","i","o","n","/","p","d","f">>}
\* FileValidator.VIDEO_MIMES, AUDIO_MIMES, DOCUMENT_MIMES
VIDEO_MIMES ==
  {<<"v","i","d","e","o","/","m","p","4">>, <<"v","i","d","e","o","/","w","e","b","m">>,
   <<"v","i","d","e","o","/","a","v","i">>, <<"v","i","d","e","o","/","m","k","v">>,
   <<"v","i","d","e","o","/","x","-","m","a","t","r","o","s","k","a">>,
   <<"v","i","d","e","o","/","q","u","i","c","k","t","i","m","e">>,
   <<"v","i","d","e","o","/","x","-","m","s","v","i","d","e","o">>,
   <<"v","i","d","e","o","/","x","-","f","l","v">>,
   <<"v","i","d","e","o","/","3","g","p","p">>, <<"v","i","d","e","o","/","m","p","e","g">>}
AUDIO_MIMES ==
  {<<"a","u","d","i","o","/","m","p","e","g">>, <<"a","u","d","i","o","/","m","p","3">>,
   <<"a","u","d","i","o","/","w","a","v">>, <<"a","u","d","i","o","/","a","a","c">>,
   <<"a","u","d","i","o","/","o","g","g">>, <<"a","u","d","i","o","/","f","l","a","c">>,
   <<"a","u","d","i","o","/","x","-","m","4","a">>}
DOCUMENT_MIMES ==
  {<<"a","p","p","l","i","c","a","t","i","o","n","/","p","d","f">>,
   <<"a","p","p","l","i","c","a","t","i","o","n","/","z","i","p">>,
   <<"a","p","p","l","i","c","a","t","i","o","n","/","x","-","r","a","r","-","c","o","m","p","r","e","s","s","e","d">>,
   <<"a","p","p","l","i","c","a","t","i","o","n","/","x","-","7","z","-","c","o","m","p","r","e","s","s","e","d">>,
   <<"a","p","p","l","i","c","a","t","i","o","n","/","x","-","t","a","r">>,
   <<"a","p","p","l","i","c","a","t","i","o","n","/","g","z","i","p">>,
   <<"a","p","p","l","i","c","a","t","i","o","n","/","o","c","t","e","t","-","s","t","r","e","a","m">>}
\* str.lower() on the letters A-Z
UpperCase == <<"A","B","C","D","E","F","G","H","I","J","K","L","M">> \o
             <<"N","O","P","Q","R","S","T","U","V","W","X","Y","Z">>
LowerCase == <<"a","b","c","d","e","f","g","h","i","j","k","l","m">> \o
             <<"n","o","p","q","r","s","t","u","v","w","x","y","z">>
\* the strings of the inputs, as sequences of characters
S_video   == <<"v","i","d","e","o">>
S_www     == <<"w","w","w",".">>
S_image   == <<"i","m","a","g","e","/">>
H_cdn     == <<"c","d","n",".","t","e","r","a","b","o","x",".","e","x","a","m","p","l","e">>
H_d       == <<"d",".","t","e","r","a","b","o","x",".","c","o","m">>
H_files   == <<"f","i","l","e","s",".","e","x","a","m","p","l","e",".","o","r","g">>
H_share   == <<"w","w","w",".","t","e","r","a","b","o","x",".","c","o","m">>
H_shareUp == <<"W","W","W",".","T","e","r","a","B","o","x",".","c","o","m">>
H_evil    == <<"t","e","r","a","b","o","x",".","c","o","m",".","e","v","i","l",".","i","o">>
T_mp4     == <<"v","i","d","e","o","/","m","p","4">>
T_mp4Up   == <<"V","i","d","e","o","/","M","P","4",";"," ","c","o","d","e","c","s","=","a","v","c","1">>
T_html    == <<"t","e","x","t","/","h","t","m","l">>
T_zip     == <<"a","p","p","l","i","c","a","t","i","o","n","/","z","i","p">>
LowerChar(c) ==
  IF \E i \in DOMAIN UpperCase : UpperCase[i] = c
  THEN LowerCase[CHOOSE i \in DOMAIN UpperCase : UpperCase[i] = c]
  ELSE c
\* str.lower()
Lower(s) == [i \in DOMAIN s |-> LowerChar(s[i])]
\* `p in s`
Contains(s, p) == \E i \in 0..(Len(s) - Len(p)) : SubSeq(s, i + 1, i + Len(p)) = p
\* s.startswith(p), s.endswith(p)
StartsWith(s, p) == Len(p) <= Len(s) /\ SubSeq(s, 1, Len(p)) = p
EndsWith(s, p) == Len(p) <= Len(s) /\ SubSeq(s, Len(s) - Len(p) + 1, Len(s)) = p
\* s.split(';')[0]
BeforeSemicolon(s) ==
  IF \E i \in DOMAIN s : s[i] = ";"
  THEN SubSeq(s, 1, (CHOOSE i \in DOMAIN s : s[i] = ";" /\ \A j \in 1..(i - 1) : s[j] # ";") - 1)
  ELSE s
\* s.strip() for blanks
RECURSIVE Strip(_)
Strip(s) ==
  IF s = <<>> THEN s
  ELSE IF Head(s) = " " THEN Strip(Tail(s))
  ELSE IF s[Len(s)] = " " THEN Strip(SubSeq(s, 1, Len(s) - 1))
  ELSE s

\* A URL as urlparse splits it: scheme, netloc, and the query as its
\* `key=value` pairs in order.  "" is EmptyUrl, Python None is NoneUrl.
Url(scheme, netloc, query) == [scheme |-> scheme, netloc |-> netloc, query |-> query]
EmptyUrl == Url("", <<>>, <<>>)
NoneUrl  == Url("None", <<>>, <<>>)
KV(k, v) == [k |-> k, v |-> v]
\* parse_qs(parsed.query): pairs with a blank value are dropped
QueryKeys(u) == {u.query[i].k : i \in {j \in DOMAIN u.query : u.query[j].v # ""}}
\* url.startswith('http')
StartsWithHttp(u) == u.scheme \in {"http", "https"}

NoSize == 0 - 1              \* Python None for an Optional[int]
MinFileSize == 524288        \* config.extraction.min_file_size = 512 * 1024

\* =============================================================== validators
\* (variant: the supported domain may appear anywhere in the host)
is_valid_terabox_url_substring(u) ==
  \E supported \in supported_domains : Contains(Lower(u.netloc), supported)

\* URLValidator.is_valid_terabox_url
is_valid_terabox_url(u) ==
  LET d0     == Lower(u.netloc)
      domain == IF StartsWith(d0, S_www) THEN SubSeq(d0, 5, Len(d0)) ELSE d0
  IN \E supported \in supported_domains :
       domain = supported \/ EndsWith(domain, <<".">> \o supported)

\* FileValidator.is_cdn_url
is_cdn_url(u) == \E pattern \in cdn_patterns : Contains(Lower(u.netloc), pattern)

\* FileValidator.has_signature_params
has_signature_params(u) == \E signature_param \in signature_params : signature_param \in QueryKeys(u)

\* FileValidator.is_valid_download_url
is_valid_download_url(u) == is_cdn_url(u) /\ has_signature_params(u)

\* FileValidator.get_file_type (content_type None or '' is <<>>)
get_file_type(content_type) ==
  IF content_type = <<>> THEN "unknown"
  ELSE LET ct == Strip(BeforeSemicolon(Lower(content_type)))
       IN IF ct \in VIDEO_MIMES THEN "video"
          ELSE IF ct \in AUDIO_MIMES THEN "audio"
          ELSE IF ct \in DOCUMENT_MIMES THEN "document"
          ELSE IF StartsWith(ct, S_image) THEN "image"
          ELSE "file"

\* FileValidator.validate_extracted_url: <<is_valid, reason>>
validate_extracted_url(u, content_length) ==
  IF u \in {EmptyUrl, NoneUrl} THEN <<FALSE, "Empty URL">>
  ELSE IF ~StartsWithHttp(u) THEN <<FALSE, "Invalid protocol">>
  ELSE IF ~is_cdn_url(u) THEN <<FALSE, "Not a CDN URL">>
  ELSE IF ~has_signature_params(u) THEN <<FALSE, "Missing signature parameters">>
  ELSE IF content_length # NoSize /\ content_length < MinFileSize
       THEN <<FALSE, "File too small">>
  ELSE <<TRUE, "Valid">>

\* ============================================================ NetworkLayer
\* The content-length header as the response carries it.
Header(kind, n) == [kind |-> kind, n |-> n]
\* (variant: a parser that reads the leading digits of any text)
ParseContentLengthLenient(h) == IF h.kind \in {"int", "text"} THEN h.n ELSE 0

\* headers.get('content-length', '0'), then
\* int(content_length_str) if content_length_str else 0, ValueError -> 0:
\* the header is missing, empty (""), the decimal text of the integer n, or
\* a text int() rejects ("5000000 bytes", "5e6", "5000000, 5000000") that
\* starts with the digits of n
ParseContentLength(h) == IF h.kind = "int" THEN h.n ELSE 0

\* (variant: the CDN branch without the size test)
_is_media_response_unsized(content_type, content_length, u) ==
  LET is_media_type == \E mt \in media_types : Contains(Lower(content_type), mt)
      is_large      == content_length >= MinFileSize
      is_cdn        == is_cdn_url(u)
      has_sig       == has_signature_params(u)
  IN (is_media_type /\ is_large) \/ (is_cdn /\ has_sig)

\* NetworkLayer._is_media_response
_is_media_response(content_type, content_length, u) ==
  LET is_media_type == \E mt \in media_types : Contains(Lower(content_type), mt)
      is_large      == content_length >= MinFileSize
      is_cdn        == is_cdn_url(u)
      has_sig       == has_signature_params(u)
  IN (is_media_type /\ is_large) \/ (is_cdn /\ has_sig /\ is_large)

\* CapturedRequest built by on_response
CapturedRequest(resp) ==
  [url |-> resp.url, content_type |-> resp.content_type,
   content_length |-> ParseContentLength(resp.content_length), filename |-> resp.filename]

\* is_media = self._is_media_response(content_type, content_length, url)
is_media(resp) ==
  _is_media_response(resp.content_type, ParseContentLength(resp.content_length), resp.url)

\* sorted(captured_urls, key=content_length or 0, reverse=True): stable
RECURSIVE InsertDesc(_, _)
InsertDesc(sorted, x) ==
  IF sorted = <<>> THEN <<x>>
  ELSE IF Head(sorted).content_length >= x.content_length
       THEN <<Head(sorted)>> \o InsertDesc(Tail(sorted), x)
       ELSE <<x>> \o sorted
RECURSIVE SortedDesc(_)
SortedDesc(cap) ==
  IF cap = <<>> THEN <<>>
  ELSE InsertDesc(SortedDesc(SubSeq(cap, 1, Len(cap) - 1)), cap[Len(cap)])

NoCapture == [url |-> NoneUrl, content_type |-> <<>>, content_length |-> NoSize,
              filename |-> "None"]



\* ------------------------------------------------------- library resources
\* A close()/stop() that raises has no effect on the resource; a close() on a
\* resource that is already closed returns normally (Playwright swallows
\* "target closed").  Closing a context closes its page, closing a browser
\* closes its contexts.
NoProc == [alive |-> FALSE, closes |-> 0]
NoDrv  == [running |-> FALSE, stops |-> 0]
NoCtx ==
  [made |-> FALSE, open |-> FALSE, page |-> "none",
   pageCloseCalled |-> FALSE, pageCloseRaised |-> FALSE,
   ctxCloseCalled |-> FALSE, ctxCloseRaised |-> FALSE,
   cb |-> 0, body |-> "none", exit |-> "none"]

ClosePageOf(c) == IF c.page = "open" THEN [c EXCEPT !.page = "closed"] ELSE c
CloseCtxOf(c)  == ClosePageOf([c EXCEPT !.open = FALSE])
ContextsAfterBrowserClose == [r \in Runners |-> CloseCtxOf(ctx[r])]

\* ====================================================== ExtractionPipeline
\* inputs of the pipeline: share URLs, responses, <video> sources
U_cdn_sig   == Url("https", H_cdn, <<KV("sign", "x")>>)
U_cdn_nosig == Url("https", H_d, <<>>)
U_cdn_blank == Url("https", H_d, <<KV("sign", "")>>)
U_other_sig == Url("https", H_files, <<KV("sign", "abc")>>)
U_share     == Url("https", H_share, <<>>)
U_shareUp   == Url("https", H_shareUp, <<KV("surl", "1abc")>>)
U_evil      == Url("https", H_evil, <<>>)
ShareUrls   == {U_shareUp, U_evil}
VideoSrcs   == {EmptyUrl, U_cdn_sig, U_cdn_nosig, U_cdn_blank, U_other_sig}

Resp(u, ct, cl, fn) == [url |-> u, content_type |-> ct, content_length |-> cl, filename |-> fn]
Responses ==
  {Resp(U_cdn_sig, T_mp4, Header("int", 2000000), "a.mp4"),
   Resp(U_share, T_html, Header("int", 1000), "None"),
   Resp(U_other_sig, T_zip, Header("int", 50000000), "b.zip"),
   Resp(U_cdn_nosig, T_mp4Up, Header("int", MinFileSize), "None"),
   Resp(U_cdn_sig, T_mp4, Header("int", 1000), "None"),
   Resp(U_cdn_sig, T_mp4, Header("missing", 0), "None"),
   Resp(U_other_sig, T_html, Header("int", 5000000), "None"),
   Resp(U_cdn_sig, T_html, Header("int", 5000000), "None")}

\* is_media of every response of the model
\* responses that differ in the content-length header only
HeaderKinds ==
  {Header("missing", 0), Header("empty", 0), Header("text", 5000000),
   Header("int", 5000000), Header("int", 0)}
HeaderResponses ==
  {Resp(u, ct, h, "None") : u \in {U_cdn_sig, U_other_sig}, ct \in {T_mp4, T_html},
                            h \in HeaderKinds}

IsMedia == [resp \in Responses \cup HeaderResponses |-> is_media(resp)]

\* (variant: the list keeps the latest candidate only)
on_response_latest(cap, resp) ==
  IF IsMedia[resp] THEN <<CapturedRequest(resp)>> ELSE cap

\* NetworkLayer.on_response on the list `cap`
on_response(cap, resp) ==
  IF IsMedia[resp] THEN Append(cap, CapturedRequest(resp)) ELSE cap

ContentTypes == {resp.content_type : resp \in Responses}
\* captured.content_type and 'video' in captured.content_type.lower()
IsVideo == [ct \in ContentTypes |-> ct # <<>> /\ Contains(Lower(ct), S_video)]

\* (variant: the largest entry, whatever its type)
get_best_url_largest(cap) ==
  IF cap = <<>> THEN NoCapture ELSE SortedDesc(cap)[1]

\* NetworkLayer.get_best_url (None is NoCapture)
get_best_url(cap) ==
  IF cap = <<>> THEN NoCapture
  ELSE LET sorted_urls == SortedDesc(cap)
           videos == {i \in DOMAIN sorted_urls : IsVideo[sorted_urls[i].content_type]}
       IN IF videos # {}
          THEN sorted_urls[CHOOSE i \in videos : \A j \in videos : i <= j]
          ELSE sorted_urls[1]

\* ExtractionResult (context.py); None fields are "None", NoneUrl, NoSize
ExtractionResult(success, url, filename, filesize, filetype, error, layer) ==
  [success |-> success, download_url |-> url, filename |-> filename,
   filesize |-> filesize, filetype |-> filetype, error |-> error, layer_used |-> layer]
Failure(error) == ExtractionResult(FALSE, NoneUrl, "None", NoSize, "None", error, "None")
NoResult == Failure("None")

\* the dictionary a stage returns, None is NoData
StageData(u, filename, filesize, filetype) ==
  [url |-> u, filename |-> filename, filesize |-> filesize, filetype |-> filetype]
NoData == StageData(NoneUrl, "None", NoSize, "None")
BestData(best) ==
  IF best = NoCapture THEN NoData
  ELSE StageData(best.url, best.filename, best.content_length,
                 get_file_type(best.content_type))

\* (variant: validation as a hard gate)
_build_result_gated(data, layer) ==
  [result |-> IF validate_extracted_url(data.url, data.filesize)[1]
              THEN ExtractionResult(TRUE, data.url, data.filename, data.filesize,
                                    data.filetype, "None", layer)
              ELSE Failure("Extracted URL failed validation"),
   validated |-> <<data.url, data.filesize>>]

\* (variant: the result does not name its stage)
_build_result_unlabelled(data, layer) ==
  [result |-> ExtractionResult(TRUE, data.url, data.filename, data.filesize,
                               data.filetype, "None", "None"),
   validated |-> <<data.url, data.filesize>>]

\* ExtractionPipeline._build_result: the result, and the pair it validates
_build_result(data, layer) ==
  [result |-> ExtractionResult(TRUE, data.url, data.filename, data.filesize,
                               data.filetype, "None", layer),
   validated |-> <<data.url, data.filesize>>]

\* (variant: a stage's output is not tested before the next stage runs)
NeverFound(data) == FALSE

\* `if result:` after a stage
Found(data) == data # NoData

PipeInit ==
  /\ ppc = "p_ready"
  /\ purl = NoneUrl
  /\ listeners = {}
  /\ captured = [pipeline |-> <<>>, dom |-> <<>>]
  /\ calls = <<>>
  /\ outs = <<>>
  /\ checked = <<>>
  /\ presult = NoResult
  /\ clicks = 0
  /\ nresp = 0
  /\ pending = EmptyBag
  /\ late = <<>>
  /\ nav = "None"

\* ====================================================== FileValidator calls
U_ftp_cdn == Url("ftp", H_cdn, <<KV("sign", "x")>>)
U_cdn_exp == Url("https", H_d, <<KV("size", "big"), KV("expires", "1")>>)
ValUrls   == {EmptyUrl, NoneUrl, U_cdn_sig, U_cdn_nosig, U_cdn_blank, U_cdn_exp,
              U_other_sig, U_share, U_ftp_cdn}
ValSizes  == {NoSize, 0, 1000, MinFileSize - 1, MinFileSize, 2000000}

NoVal == [pc |-> "idle", op |-> "none", url |-> NoneUrl, size |-> NoSize,
          out |-> <<FALSE, "none">>]

\* a caller invokes a predicate of FileValidator
ValCall(op, u, n) ==
  /\ val.pc # "called"
  /\ val' = [NoVal EXCEPT !.pc = "called", !.op = op, !.url = u, !.size = n]
  /\ UNCHANGED <<mvars, pvars, xvars, fvars, calc, rt, rc>>

\* the predicate returns
ValReturn ==
  /\ val.pc = "called"
  /\ val' = [val EXCEPT !.pc = "returned",
                        !.out = IF val.op = "validate_extracted_url"
                                THEN validate_extracted_url(val.url, val.size)
                                ELSE <<is_valid_download_url(val.url), "none">>]
  /\ UNCHANGED <<mvars, pvars, xvars, fvars, calc, rt, rc>>

ValNext ==
  \/ \E u \in ValUrls : \E n \in ValSizes : ValCall("validate_extracted_url", u, n)
  \/ \E u \in ValUrls : ValCall("is_valid_download_url", u, NoSize)
  \/ ValReturn

\* ================================================================= retry.py
\* Times are whole milliseconds, a jitter factor is in hundredths, and the
\* exponential bases of the model are whole numbers: every delay is exact.
BaseDelays   == {500, 1000, 1250, 40000}
MaxDelays    == {10000, 30000}
ExpBases     == {0, 1, 2, 3}
JitterRanges == {<<50, 150>>, <<100, 150>>}
JitterDraws  == {50, 100, 150}

RECURSIVE Pow(_, _)
Pow(b, e) == IF e = 0 THEN 1 ELSE b * Pow(b, e - 1)
Min(a, b) == IF a <= b THEN a ELSE b

\* random.uniform(jitter_range[0], jitter_range[1])
Uniform(jitter_range) == {f \in JitterDraws : jitter_range[1] <= f /\ f <= jitter_range[2]}

\* (variant: the jitter is applied before the clamp)
calculate_delay_clamped_last(attempt, base_delay, max_delay, exponential_base, jitter, jitter_factor) ==
  LET delay == base_delay * Pow(exponential_base, attempt)
  IN Min(IF jitter THEN (delay * jitter_factor) \div 100 ELSE delay, max_delay)

\* (variant: no clamp)
calculate_delay_unclamped(attempt, base_delay, max_delay, exponential_base, jitter, jitter_factor) ==
  LET delay == base_delay * Pow(exponential_base, attempt)
  IN IF jitter THEN (delay * jitter_factor) \div 100 ELSE delay

\* calculate_delay; jitter_factor is the value random.uniform returned
calculate_delay(attempt, base_delay, max_delay, exponential_base, jitter, jitter_factor) ==
  LET delay   == base_delay * Pow(exponential_base, attempt)
      clamped == Min(delay, max_delay)
  IN IF jitter THEN (clamped * jitter_factor) \div 100 ELSE clamped

NoCalc == [pc |-> "idle", attempt |-> 0, base_delay |-> 0, max_delay |-> 0,
           exponential_base |-> 0, jitter |-> FALSE, jitter_range |-> <<0, 0>>,
           jitter_factor |-> 0, delay |-> 0]

\* exception classes and their base classes
ExcBase == [KeyError |-> "LookupError", LookupError |-> "Exception",
            ValueError |-> "Exception", TimeoutError |-> "Exception",
            TypeError |-> "Exception", Exception |-> "BaseException"]
RECURSIVE Mro(_)
Mro(cls) == IF cls = "BaseException" THEN {cls} ELSE {cls} \cup Mro(ExcBase[cls])
isinstance(e, classes) == Mro(e) \cap classes # {}
Raised == {"KeyError", "ValueError", "TimeoutError"}

\* RetryConfig
DelayConfigs ==
  {[base_delay |-> 1000, max_delay |-> 30000, exponential_base |-> 2, jitter |-> FALSE,
    jitter_range |-> <<50, 150>>],
   [base_delay |-> 1000, max_delay |-> 3000, exponential_base |-> 2, jitter |-> TRUE,
    jitter_range |-> <<50, 150>>]}
RetryConfig(max_attempts, d, retry_exceptions, fatal_exceptions) ==
  [max_attempts |-> max_attempts, base_delay |-> d.base_delay, max_delay |-> d.max_delay,
   exponential_base |-> d.exponential_base, jitter |-> d.jitter,
   jitter_range |-> d.jitter_range,
   retry_exceptions |-> retry_exceptions, fatal_exceptions |-> fatal_exceptions]
RetryConfigs ==
  {RetryConfig(n, d, re, fe) :
     n \in 0..MaxAttempts, d \in DelayConfigs,
     re \in {{"Exception"}, {"TimeoutError", "KeyError"}},
     fe \in {{}, {"LookupError"}}}

\* the delay before the retry that follows attempt index `attempt`
config_delay(cfg, attempt, jitter_factor) ==
  calculate_delay(attempt, cfg.base_delay, cfg.max_delay, cfg.exponential_base,
                  cfg.jitter, jitter_factor)
Draws(cfg) == IF cfg.jitter THEN Uniform(cfg.jitter_range) ELSE {100}

NoRetry == [pc |-> "idle", cfg |-> RetryConfig(0, CHOOSE d \in DelayConfigs : ~d.jitter, {}, {}),
            attempt |-> 0, last_exception |-> "None", outcomes |-> <<>>, trace |-> <<>>,
            delays |-> <<>>, indices |-> <<>>, draws |-> <<>>, out |-> <<"none", "none">>]
Idle == val.pc # "called" /\ calc.pc = "idle" /\ rt.pc = "idle" /\ rc.pc = "idle"

UtilInit ==
  /\ val = NoVal
  /\ calc = NoCalc
  /\ rt = NoRetry
  /\ rc = NoRetry

\* ---------------------------------------------------------- calculate_delay
CalcCall(attempt, base_delay, max_delay, exponential_base, jitter, jitter_range) ==
  /\ Idle
  /\ calc' = [NoCalc EXCEPT !.pc = "called", !.attempt = attempt, !.base_delay = base_delay,
                            !.max_delay = max_delay, !.exponential_base = exponential_base,
                            !.jitter = jitter, !.jitter_range = jitter_range]
  /\ UNCHANGED <<mvars, pvars, xvars, fvars, val, rt, rc>>

CalcReturn ==
  /\ calc.pc = "called"
  /\ \E f \in IF calc.jitter THEN Uniform(calc.jitter_range) ELSE {100} :
       calc' = [calc EXCEPT !.pc = "returned", !.jitter_factor = f,
                            !.delay = calculate_delay(calc.attempt, calc.base_delay,
                                                      calc.max_delay, calc.exponential_base,
                                                      calc.jitter, f)]
  /\ UNCHANGED <<mvars, pvars, xvars, fvars, val, rt, rc>>

\* the caller has used the value
CalcReset ==
  /\ calc.pc = "returned"
  /\ calc' = NoCalc
  /\ UNCHANGED <<mvars, pvars, xvars, fvars, val, rt, rc>>

\* -------------------------------------------------- async_retry: wrapper
\* (variant: the retryable classes are tested first)
caught_fatal_second(cfg, e) ==
  isinstance(e, cfg.fatal_exceptions) /\ ~isinstance(e, cfg.retry_exceptions)

\* except config.fatal_exceptions as e: the first handler of the try
caught_fatal(cfg, e) == isinstance(e, cfg.fatal_exceptions)

\* wrapper(*args): last_exception = None; for attempt in range(max_attempts)
RetryStart(cfg) ==
  /\ Idle
  /\ rt' = IF cfg.max_attempts = 0
           THEN [NoRetry EXCEPT !.pc = "raised", !.cfg = cfg,
                                !.out = <<"raise", "TypeError">>]    \* raise None
           ELSE [NoRetry EXCEPT !.pc = "call", !.cfg = cfg]
  /\ UNCHANGED <<mvars, pvars, xvars, fvars, val, calc, rc>>

\* return await func(*args, **kwargs), and the handler of what it raised
RetryCall(outcome, jitter_factor) ==
  /\ rt.pc = "call"
  /\ LET c    == rt.cfg
         seen == [rt EXCEPT !.outcomes = Append(@, outcome), !.trace = Append(@, "call")]
     IN rt' =
          IF outcome = "ok"
          THEN [seen EXCEPT !.pc = "returned", !.out = <<"return", "value">>]
          ELSE IF caught_fatal(c, outcome)
          THEN [seen EXCEPT !.pc = "raised", !.out = <<"raise", outcome>>]
          ELSE IF isinstance(outcome, c.retry_exceptions)
          THEN IF rt.attempt < c.max_attempts - 1
               THEN [seen EXCEPT !.pc = "sleep", !.last_exception = outcome,
                                 !.indices = Append(@, rt.attempt),
                                 !.draws = Append(@, jitter_factor),
                                 !.delays = Append(@, config_delay(c, rt.attempt,
                                                                   jitter_factor))]
               ELSE [seen EXCEPT !.pc = "raised", !.last_exception = outcome,
                                 !.out = <<"raise", outcome>>]   \* raise last_exception
          ELSE [seen EXCEPT !.pc = "raised", !.out = <<"raise", outcome>>]
  /\ UNCHANGED <<mvars, pvars, xvars, fvars, val, calc, rc>>

\* await asyncio.sleep(delay), then the next iteration
RetrySleep ==
  /\ rt.pc = "sleep"
  /\ rt' = [rt EXCEPT !.pc = "call", !.attempt = @ + 1, !.trace = Append(@, "sleep")]
  /\ UNCHANGED <<mvars, pvars, xvars, fvars, val, calc, rc>>

RetryReset ==
  /\ rt.pc \in {"returned", "raised"}
  /\ rt' = NoRetry
  /\ UNCHANGED <<mvars, pvars, xvars, fvars, val, calc, rc>>

\* ------------------------------------- RetryContext and the loop around it
\*   async with RetryContext(config) as ctx:
\*       while ctx.should_retry():
\*           try: result = await some_operation(); break
\*           except Exception as e: await ctx.handle_exception(e)
should_retry(c) == c.attempt < c.cfg.max_attempts

\* The loop may be run on the operation and the configuration that a call of
\* the wrapper has just been run on: the operation then has, invocation by
\* invocation, the outcomes it had under the wrapper, and random.uniform
\* returns, draw by draw, what it returned to the wrapper.
Finished(c) == c.pc \in {"returned", "raised"}
SameOperation(outcome, jitter_factor) ==
  Finished(rt) =>
    /\ Len(rc.outcomes) < Len(rt.outcomes) => outcome = rt.outcomes[Len(rc.outcomes) + 1]
    /\ Len(rc.draws) < Len(rt.draws) => jitter_factor = rt.draws[Len(rc.draws) + 1]

CtxStart(cfg) ==
  /\ val.pc # "called" /\ calc.pc = "idle" /\ rc.pc = "idle"
  /\ rt.pc = "idle" \/ (Finished(rt) /\ rt.cfg = cfg)
  /\ rc' = LET c == [NoRetry EXCEPT !.cfg = cfg]
           IN IF should_retry(c) THEN [c EXCEPT !.pc = "call"]
              ELSE [c EXCEPT !.pc = "returned", !.out = <<"exit", "none">>]
  /\ UNCHANGED <<mvars, pvars, xvars, fvars, val, calc, rt>>

\* some_operation(), and RetryContext.handle_exception up to its await
CtxCall(outcome, jitter_factor) ==
  /\ rc.pc = "call"
  /\ SameOperation(outcome, jitter_factor)
  /\ LET seen == [rc EXCEPT !.outcomes = Append(@, outcome), !.trace = Append(@, "call")]
         h    == [seen EXCEPT !.last_exception = outcome, !.attempt = @ + 1]
     IN rc' =
          IF outcome = "ok"
          THEN [seen EXCEPT !.pc = "returned", !.out = <<"return", "value">>]
          ELSE IF isinstance(outcome, h.cfg.fatal_exceptions)
          THEN [h EXCEPT !.pc = "raised", !.out = <<"raise", outcome>>]
          ELSE IF h.attempt < h.cfg.max_attempts
          THEN [h EXCEPT !.pc = "sleep",
                         !.indices = Append(@, h.attempt - 1),
                         !.draws = Append(@, jitter_factor),
                         !.delays = Append(@, config_delay(h.cfg, h.attempt - 1,
                                                           jitter_factor))]
          ELSE [h EXCEPT !.pc = "raised", !.out = <<"raise", outcome>>]
  /\ UNCHANGED <<mvars, pvars, xvars, fvars, val, calc, rt>>

\* await asyncio.sleep(delay) in handle_exception, then `while ctx.should_retry()`
CtxSleep ==
  /\ rc.pc = "sleep"
  /\ rc' = LET c == [rc EXCEPT !.trace = Append(@, "sleep")]
           IN IF should_retry(c) THEN [c EXCEPT !.pc = "call"]
              ELSE [c EXCEPT !.pc = "returned", !.out = <<"exit", "none">>]
  /\ UNCHANGED <<mvars, pvars, xvars, fvars, val, calc, rt>>

CtxReset ==
  /\ rc.pc \in {"returned", "raised"}
  /\ rc' = NoRetry
  /\ UNCHANGED <<mvars, pvars, xvars, fvars, val, calc, rt>>

RetryNext ==
  \/ \E a \in 0..MaxAttemptIndex : \E b \in BaseDelays : \E m \in MaxDelays :
       \E e \in ExpBases : \E j \in BOOLEAN : \E jr \in JitterRanges :
         CalcCall(a, b, m, e, j, jr)
  \/ CalcReturn
  \/ CalcReset
  \/ \E cfg \in RetryConfigs : RetryStart(cfg)
  \/ \E o \in Raised \cup {"ok"} : \E f \in Draws(rt.cfg) : RetryCall(o, f)
  \/ RetrySleep
  \/ RetryReset
  \/ \E cfg \in RetryConfigs : CtxStart(cfg)
  \/ \E o \in Raised \cup {"ok"} : \E f \in Draws(rc.cfg) : CtxCall(o, f)
  \/ CtxSleep
  \/ CtxReset

\* ======================================================== the random module
\* fingerprint.py, humanizer.py, dom_layer.py and retry.py all `import random`
\* and draw from the module-level generator: one state per process.  The
\* generator is a map from a state to a value and a next state; the model
\* uses a linear congruential one.
MaxToken == 7        \* secrets.token_hex(32) and the OS entropy give 0..MaxToken
MaxWait == 2         \* largest max_wait given to wait_for_countdown, in seconds
MaxCalls == 3        \* calls of human_delay in one behaviour of HumanSpec

Tokens == 0..MaxToken
NotSeeded == 0 - 1           \* before the module is imported

\* the next state of the generator after one draw
Advance(x) == (x * 75 + 74) % 65537

\* random.seed(a) for a hexadecimal string a (here the number it writes)
random_seed(a) == (a * 7919 + 13) % 65537

\* random.choice(seq) on the state x
choice(seq, x) == seq[(x % Len(seq)) + 1]

\* random.choices(seq, weights)[0] on the state x; weights in hundredths
RECURSIVE Bisect(_, _, _, _)
Bisect(weights, r, i, acc) ==
  IF i = Len(weights) \/ r < acc + weights[i] THEN i
  ELSE Bisect(weights, r, i + 1, acc + weights[i])
choices(seq, weights, x) == seq[Bisect(weights, x % 100, 1, 0)]

\* ===================================================== FingerprintGenerator
CHROME_VERSIONS ==
  << <<"124", "124.0.6367.91">>, <<"125", "125.0.6422.60">>, <<"126", "126.0.6478.55">>,
     <<"127", "127.0.6533.72">>, <<"128", "128.0.6613.84">>, <<"129", "129.0.6668.42">>,
     <<"130", "130.0.6723.91">>, <<"131", "131.0.6778.85">>, <<"132", "132.0.6834.57">> >>

WINDOWS_VERSIONS ==
  << <<"10.0", "Windows NT 10.0; Win64; x64", "10.0.0">>,
     <<"11.0", "Windows NT 10.0; Win64; x64", "15.0.0">> >>

MACOS_VERSIONS ==
  << <<"10_15_7", "Macintosh; Intel Mac OS X 10_15_7", "10.15.7">>,
     <<"12_7_1", "Macintosh; Intel Mac OS X 12_7_1", "12.7.1">>,
     <<"13_6_3", "Macintosh; Intel Mac OS X 13_6_3", "13.6.3">>,
     <<"14_2_1", "Macintosh; Intel Mac OS X 14_2_1", "14.2.1">>,
     <<"14_5", "Macintosh; Intel Mac OS X 14_5", "14.5">> >>

VIEWPORTS ==
  << [width |-> 1920, height |-> 1080], [width |-> 1536, height |-> 864],
     [width |-> 1440, height |-> 900],  [width |-> 1366, height |-> 768],
     [width |-> 1280, height |-> 720],  [width |-> 2560, height |-> 1440],
     [width |-> 1680, height |-> 1050], [width |-> 1600, height |-> 900],
     [width |-> 1920, height |-> 1200], [width |-> 1280, height |-> 800] >>

\* (timezone, languages, locale, weight in hundredths)
TIMEZONES ==
  << <<"America/New_York", <<"en-US", "en">>, "en-US", 12>>,
     <<"America/Los_Angeles", <<"en-US", "en">>, "en-US", 10>>,
     <<"America/Chicago", <<"en-US", "en">>, "en-US", 6>>,
     <<"Europe/London", <<"en-GB", "en">>, "en-GB", 8>>,
     <<"Europe/Paris", <<"fr-FR", "fr", "en">>, "fr-FR", 4>>,
     <<"Europe/Berlin", <<"de-DE", "de", "en">>, "de-DE", 5>>,
     <<"Asia/Tokyo", <<"ja-JP", "ja", "en">>, "ja-JP", 4>>,
     <<"Asia/Shanghai", <<"zh-CN", "zh", "en">>, "zh-CN", 6>>,
     <<"Asia/Kolkata", <<"en-IN", "hi-IN", "en">>, "en-IN", 15>>,
     <<"Asia/Singapore", <<"en-SG", "zh-SG", "en">>, "en-SG", 3>>,
     <<"Australia/Sydney", <<"en-AU", "en">>, "en-AU", 3>>,
     <<"Europe/Moscow", <<"ru-RU", "ru", "en">>, "ru-RU", 3>>,
     <<"America/Sao_Paulo", <<"pt-BR", "pt", "en">>, "pt-BR", 4>>,
     <<"Asia/Seoul", <<"ko-KR", "ko", "en">>, "ko-KR", 3>>,
     <<"Asia/Dubai", <<"ar-AE", "en-AE", "en">>, "ar-AE", 2>>,
     <<"Asia/Jakarta", <<"id-ID", "id", "en">>, "id-ID", 5>>,
     <<"Europe/Amsterdam", <<"nl-NL", "nl", "en">>, "nl-NL", 2>>,
     <<"Asia/Manila", <<"en-PH", "fil-PH", "en">>, "en-PH", 5>> >>

WEBGL_CONFIGS_WINDOWS ==
  << <<"Google Inc. (NVIDIA)", "ANGLE (NVIDIA, NVIDIA GeForce RTX 3060 Direct3D11 vs_5_0 ps_5_0, D3D11)">>,
     <<"Google Inc. (NVIDIA)", "ANGLE (NVIDIA, NVIDIA GeForce RTX 3070 Direct3D11 vs_5_0 ps_5_0, D3D11)">>,
     <<"Google Inc. (NVIDIA)", "ANGLE (NVIDIA, NVIDIA GeForce RTX 4060 Direct3D11 vs_5_0 ps_5_0, D3D11)">>,
     <<"Google Inc. (NVIDIA)", "ANGLE (NVIDIA, NVIDIA GeForce RTX 4070 Direct3D11 vs_5_0 ps_5_0, D3D11)">>,
     <<"Google Inc. (NVIDIA)", "ANGLE (NVIDIA, NVIDIA GeForce GTX 1660 Super Direct3D11 vs_5_0 ps_5_0, D3D11)">>,
     <<"Google Inc. (AMD)", "ANGLE (AMD, AMD Radeon RX 6700 XT Direct3D11 vs_5_0 ps_5_0, D3D11)">>,
     <<"Google Inc. (AMD)", "ANGLE (AMD, AMD Radeon RX 7600 Direct3D11 vs_5_0 ps_5_0, D3D11)">>,
     <<"Google Inc. (Intel)", "ANGLE (Intel, Intel(R) UHD Graphics 770 Direct3D11 vs_5_0 ps_5_0, D3D11)">>,
     <<"Google Inc. (Intel)", "ANGLE (Intel, Intel(R) Iris(R) Xe Graphics Direct3D11 vs_5_0 ps_5_0, D3D11)">> >>

WEBGL_CONFIGS_MAC ==
  << <<"Apple Inc.", "Apple M1">>, <<"Apple Inc.", "Apple M1 Pro">>,
     <<"Apple Inc.", "Apple M2">>, <<"Apple Inc.", "Apple M2 Pro">>,
     <<"Apple Inc.", "Apple M3">>, <<"Apple Inc.", "Apple M3 Pro">>,
     <<"Apple Inc.", "AMD Radeon Pro 5500M OpenGL Engine">>,
     <<"Apple Inc.", "Intel(R) Iris(TM) Plus Graphics OpenGL Engine">> >>

\* (variant: one GPU catalog for both platforms)
webgl_configs_shared(os_type) == WEBGL_CONFIGS_WINDOWS

\* lines 217-230: the GPU catalog of the chosen platform
webgl_configs(os_type) ==
  IF os_type = "windows" THEN WEBGL_CONFIGS_WINDOWS ELSE WEBGL_CONFIGS_MAC

\* _generate_client_hints: sec-ch-ua-platform and -platform-version
_generate_client_hints(chrome_major, platform_version, os_type) ==
  [sec_ch_ua_major |-> chrome_major,
   sec_ch_ua_platform |-> IF os_type = "windows" THEN "Windows" ELSE "macOS",
   sec_ch_ua_platform_version |-> platform_version]

\* The draws of generate, in the order of the code, on the state x0 that
\* random.seed left.  The font subset, the brand order, the audio seed, the
\* battery and the connection are further draws of the same stream and are
\* no fields of the model's Identity; the state after generate is `next`.
Identity(x0) ==
  LET x1 == Advance(x0)      \* os_type
      x2 == Advance(x1)      \* version_data
      x3 == Advance(x2)      \* webgl_config
      x4 == Advance(x3)      \* fonts
      x5 == Advance(x4)      \* chrome version
      x6 == Advance(x5)      \* viewport
      x7 == Advance(x6)      \* screen height
      x8 == Advance(x7)      \* timezone_data
      x9 == Advance(x8)      \* device_memory
      x10 == Advance(x9)     \* canvas_seed
      x11 == Advance(x10)    \* do_not_track
      os_type == choices(<<"windows", "macos">>, <<75, 25>>, x1)
      version_data == IF os_type = "windows" THEN choice(WINDOWS_VERSIONS, x2)
                      ELSE choice(MACOS_VERSIONS, x2)
      webgl_config == choice(webgl_configs(os_type), x3)
      chrome == choice(CHROME_VERSIONS, x5)
      viewport == choice(VIEWPORTS, x6)
      timezone_data == choices(TIMEZONES, [i \in DOMAIN TIMEZONES |-> TIMEZONES[i][4]], x8)
  IN [fingerprint |->
        [user_agent |-> <<"Mozilla/5.0", version_data[2], "Chrome", chrome[2]>>,
         viewport |-> viewport,
         screen |-> [width |-> viewport.width,
                     height |-> viewport.height + choice(<<0, 40, 48, 56>>, x7)],
         timezone |-> timezone_data[1],
         languages |-> timezone_data[2],
         locale |-> timezone_data[3],
         platform |-> IF os_type = "windows" THEN "Win32" ELSE "MacIntel",
         device_memory |-> choice(<<4, 8, 8, 16, 16, 32>>, x9),
         webgl_vendor |-> webgl_config[1],
         webgl_renderer |-> webgl_config[2],
         client_hints |-> _generate_client_hints(chrome[1], version_data[3], os_type),
         canvas_seed |-> x10,
         do_not_track |-> choice(<<"None", "1", "None", "None">>, x11)],
      next |-> x11]

\* Optional[str]: None is <<>>, a string s is <<s>>
NoSeed == <<>>
SeedStrings == <<"", "https://t.example/s/1a_0_0.0", "https://t.example/s/1a_1_2.0">>
SeedArgs == {NoSeed} \cup {<<SeedStrings[i]>> : i \in DOMAIN SeedStrings}

\* hashlib.sha256(seed.encode()).hexdigest(): one digest per string, none of
\* them a token of the entropy source
sha256(s) == MaxToken + (CHOOSE i \in DOMAIN SeedStrings : SeedStrings[i] = s)

\* line 209: `if seed:` -- None and the empty string are false
seed_given(seed) == seed # NoSeed /\ seed[1] # ""

\* lines 209-212: the state random.seed leaves, `token` is what
\* secrets.token_hex(32) returns when it is called
seeded(seed, token) ==
  IF seed_given(seed) THEN random_seed(sha256(seed[1])) ELSE random_seed(token)

\* ------------------------------------------------------------ human_delay
\* Times are in hundredths of a millisecond, variance in hundredths.
\* random.lognormvariate(log(base_ms), sigma) is base_ms * exp(sigma * z) for a
\* normal draw z: base_ms times a positive factor (here in percent), which is
\* 1 when sigma is 0.
LogNormalFactors == <<1, 25, 50, 90, 100, 150, 300, 301, 1000>>
lognormvariate(base_ms, sigma, x) ==
  base_ms * (IF sigma = 0 THEN 100 ELSE choice(LogNormalFactors, x))

Max(a, b) == IF a > b THEN a ELSE b

\* (variant: the upper clamp only)
clamp_upper_only(delay, base_ms) == Min(delay, base_ms * 300)

\* line 54: delay_ms = max(100, min(delay_ms, base_ms * 3))
clamp(delay, base_ms) == Max(10000, Min(delay, base_ms * 300))

\* lines 51-55: what human_delay sleeps, on the generator state x
human_delay(base_ms, variance, x) == clamp(lognormvariate(base_ms, variance, x), base_ms)

BaseMs == {0, 20, 33, 34, 500, 2000}
Variances == {0, 30, 100}
NoDelay == [pc |-> "idle", base_ms |-> 0, variance |-> 0, out |-> "none", slept |-> 0,
            calls |-> 0]

\* `import random`: the generator is seeded from the entropy of the OS
ImportRandom(token) ==
  /\ rng = NotSeeded
  /\ rng' = random_seed(token)
  /\ UNCHANGED <<mvars, pvars, xvars, rvars, att, hd, cd>>

\* Humanizer.human_delay(base_ms, variance) up to its await; math.log raises
\* ValueError for base_ms = 0
HdCall(base_ms, variance) ==
  /\ rng # NotSeeded
  /\ hd.pc = "idle"
  /\ hd.calls < MaxCalls
  /\ IF base_ms = 0
     THEN /\ hd' = [NoDelay EXCEPT !.pc = "done", !.variance = variance, !.out = "ValueError",
                                   !.calls = hd.calls + 1]
          /\ rng' = rng
     ELSE /\ hd' = [pc |-> "sleep", base_ms |-> base_ms, variance |-> variance,
                    out |-> "none", slept |-> human_delay(base_ms, variance, Advance(rng)),
                    calls |-> hd.calls + 1]
          /\ rng' = Advance(rng)
  /\ UNCHANGED <<mvars, pvars, xvars, rvars, att, cd>>

\* await asyncio.sleep(delay_ms / 1000) returns
HdSleep ==
  /\ hd.pc = "sleep"
  /\ hd' = [hd EXCEPT !.pc = "done", !.out = "returned"]
  /\ UNCHANGED <<mvars, pvars, xvars, rvars, rng, att, cd>>

\* the caller goes on
HdReset ==
  /\ hd.pc = "done"
  /\ hd' = [NoDelay EXCEPT !.calls = hd.calls]
  /\ UNCHANGED <<mvars, pvars, xvars, rvars, rng, att, cd>>

HumanNext ==
  \/ \E t \in Tokens : ImportRandom(t)
  \/ \E b \in BaseMs : \E v \in Variances : HdCall(b, v)
  \/ HdSleep
  \/ HdReset

\* ---------------------------------------------------- concurrent attempts
\* Two attempts of the same event loop (two calls of extract_with_stealth, or
\* of run_extraction from two bot handlers).  A step is the code of one
\* attempt between two awaits: create_stealth_context calls generate without
\* an await, and the callback then awaits human_delay(2000, 0.3)
\* (pipeline.py:140), human_delay(500, 0.3) (dom_layer.py:158) and
\* human_delay(800, 0.4) (dom_layer.py:193), with awaits in between.
Attempts == {"a1", "a2"}
HumanArgs == << <<2000, 30>>, <<500, 30>>, <<800, 40>> >>
NoAttempt == [pc |-> "new", seed |-> NoSeed, x0 |-> NotSeeded,
              fingerprint |-> <<>>, slept |-> <<>>]

\* fingerprint = FingerprintGenerator.generate(seed)   (context.py:87)
Generate(a, seed, token) ==
  /\ att[a].pc = "new"
  /\ LET x0 == seeded(seed, token)
         id == Identity(x0)
     IN /\ att' = [att EXCEPT ![a] = [pc |-> "page", seed |-> seed, x0 |-> x0,
                                      fingerprint |-> <<id.fingerprint>>, slept |-> <<>>]]
        /\ rng' = id.next
  /\ UNCHANGED <<mvars, pvars, xvars, rvars, hd, cd>>

\* the attempt's next human_delay: one draw from the generator
AttemptDelay(a) ==
  /\ att[a].pc = "page"
  /\ LET k == Len(att[a].slept) + 1
         x == Advance(rng)
     IN /\ att' = [att EXCEPT ![a] =
                     [@ EXCEPT !.slept = Append(@, human_delay(HumanArgs[k][1],
                                                                HumanArgs[k][2], x)),
                               !.pc = IF k = Len(HumanArgs) THEN "done" ELSE "page"]]
        /\ rng' = x
  /\ UNCHANGED <<mvars, pvars, xvars, rvars, hd, cd>>

FingerprintNext ==
  \/ \E t \in Tokens : ImportRandom(t)
  \/ \E a \in Attempts : \E s \in SeedArgs : \E t \in Tokens : Generate(a, s, t)
  \/ \E a \in Attempts : AttemptDelay(a)

\* ============================================== DOMLayer.wait_for_countdown
\* The clock is in seconds and advances in `await asyncio.sleep(1)` only: the
\* awaited queries take no time.  What the page answers is an input of every
\* step: query_selector gives an element, None, or raises; text_content
\* gives a text, or raises (the element is detached).
COUNTDOWN_SELECTORS ==
  <<"[class*=countdown]", "[class*=timer]", "[id*=countdown]", "[id*=timer]",
    ".wait-time", ".download-wait">>

\* re.findall(r'\d+', text) of the texts a countdown shows
Texts == {"", "Please wait", "5", "0", "0:30", "00:05"}
findall_digits(text) ==
  CASE text = "5"     -> <<5>>
    [] text = "0"     -> <<0>>
    [] text = "0:30"  -> <<0, 30>>
    [] text = "00:05" -> <<0, 5>>
    [] OTHER          -> <<>>

\* seconds the text says are left
Remaining(text) ==
  CASE text = "5"     -> 5
    [] text = "0:30"  -> 30
    [] text = "00:05" -> 5
    [] OTHER          -> 0

\* lines 109-113: `if text:` ... `if numbers and int(numbers[0]) == 0`
reached_zero(text) ==
  text # "" /\ findall_digits(text) # <<>> /\ findall_digits(text)[1] = 0

NoCountdown == [pc |-> "idle", max_wait |-> 0, selector |-> 1, start_time |-> 0,
                now |-> 0, why |-> "none", text |-> ""]

\* the next selector of the for loop, or the end of the function
next_selector(c, why) ==
  IF c.selector < Len(COUNTDOWN_SELECTORS)
  THEN [c EXCEPT !.pc = "query", !.selector = @ + 1]
  ELSE [c EXCEPT !.pc = "returned", !.why = why]

\* line 120: except Exception: continue
after_exception(c) == next_selector(c, "exception")

\* line 100: while loop.time() - start_time < max_wait; line 119: return
while_test(c) ==
  IF c.now - c.start_time < c.max_wait THEN [c EXCEPT !.pc = "poll"]
  ELSE [c EXCEPT !.pc = "returned", !.why = "max_wait"]

\* wait_for_countdown(page, max_wait)
CdCall(max_wait) ==
  /\ cd.pc = "idle"
  /\ cd' = [NoCountdown EXCEPT !.pc = "query", !.max_wait = max_wait]
  /\ UNCHANGED <<mvars, pvars, xvars, rvars, rng, att, hd>>

\* line 95: countdown = await page.query_selector(selector); if countdown:
CdQuery(answer) ==
  /\ cd.pc = "query"
  /\ cd' = CASE answer = "element" -> while_test([cd EXCEPT !.start_time = cd.now])
             [] answer = "none"    -> next_selector(cd, "no countdown")
             [] OTHER              -> after_exception(cd)
  /\ UNCHANGED <<mvars, pvars, xvars, rvars, rng, att, hd>>

\* lines 102-115: one turn of the while loop up to its sleep
CdPoll(answer, text) ==
  /\ cd.pc = "poll"
  /\ cd' = CASE answer = "none" -> [cd EXCEPT !.pc = "returned", !.why = "disappeared"]
             [] answer = "raise" -> after_exception(cd)
             [] answer = "detached" -> after_exception(cd)    \* text_content raises
             [] OTHER ->
                  IF reached_zero(text)
                  THEN [cd EXCEPT !.pc = "returned", !.why = "zero", !.text = text]
                  ELSE [cd EXCEPT !.pc = "sleep"]
  /\ UNCHANGED <<mvars, pvars, xvars, rvars, rng, att, hd>>

\* line 117: await asyncio.sleep(1), then the test of the while loop
CdSleep ==
  /\ cd.pc = "sleep"
  /\ cd' = while_test([cd EXCEPT !.now = @ + 1])
  /\ UNCHANGED <<mvars, pvars, xvars, rvars, rng, att, hd>>

\* the caller goes on (extract_via_dom, lines 220 and 247)
CdReset ==
  /\ cd.pc = "returned"
  /\ cd' = NoCountdown
  /\ UNCHANGED <<mvars, pvars, xvars, rvars, rng, att, hd>>

CountdownNext ==
  \/ \E w \in 1..MaxWait : CdCall(w)
  \/ \E a \in {"element", "none", "raise"} : CdQuery(a)
  \/ \E a \in {"element", "none", "raise", "detached"} : \E t \in Texts : CdPoll(a, t)
  \/ CdSleep
  \/ CdReset

\* ======================================================= the DOM stage
\* extract_via_dom (dom_layer.py) on one page.  An element is what the page
\* answers about it: is_visible() (or the exception it raises when the
\* element is detached) and get_attribute('disabled'), which is None when the
\* attribute is absent and the attribute's value otherwise ("" for
\* <button disabled>).  An attribute value is <<>> for None, <<v>> for v.
DOWNLOAD_SELECTORS ==
  <<"button:has-text(Download)", "a:has-text(Download)",
    "[class*=download]:has-text(Download)", "[id*=download]",
    "button:has-text(Free Download)", "a:has-text(Free Download)",
    "[class*=free]:has-text(Download)", "button:has-text(Save)", "a:has-text(Save)",
    "button:has-text(zh-direct)", "button:has-text(zh-normal)",
    "button:has-text(Play)", "button:has-text(Preview)", "[class*=play-btn]",
    "[class*=preview]", "[class*=btn][class*=download]", "[class*=icon-download]",
    "svg[class*=download]", "[data-action=download]", "[data-type=download]",
    ".file-item-download", ".download-btn", ".btn-download", "#downloadBtn",
    ".primaryBtn", ".main-btn">>

DomClickAttempts == 3        \* range(3) in extract_via_dom

NoAttr == <<>>
ElementKinds ==
  { [visible |-> "yes",   disabled |-> NoAttr],
    [visible |-> "yes",   disabled |-> <<"">>],
    [visible |-> "yes",   disabled |-> <<"disabled">>],
    [visible |-> "no",    disabled |-> NoAttr],
    [visible |-> "raise", disabled |-> NoAttr] }

\* the elements a page has, by the selector that matches them; the pages of
\* the model have matches for the first and for the last selector only
MatchLists == {<<>>} \cup {<<k>> : k \in ElementKinds}
                \cup {<<j, k>> : j \in ElementKinds, k \in ElementKinds}
Pages == [first : MatchLists, last : MatchLists]
query_selector_all(page, s) ==
  IF s = 1 THEN page.first
  ELSE IF s = Len(DOWNLOAD_SELECTORS) THEN page.last ELSE <<>>

\* an element found: the selector that matched it and its place in the match list
NoButton == <<>>
Button(s, i) == <<s, i>>

\* line 146: `if not disabled:` -- None and the empty string are false
not_disabled(disabled) == disabled = NoAttr \/ disabled = <<"">>

\* lines 142-148: the loop over the elements of one selector; "raise" when
\* is_visible raises before an element was returned
RECURSIVE scan_elements(_, _, _)
scan_elements(elements, s, i) ==
  IF i > Len(elements) THEN NoButton
  ELSE IF elements[i].visible = "raise" THEN <<"raise">>
  ELSE IF elements[i].visible = "yes" /\ not_disabled(elements[i].disabled)
       THEN Button(s, i)
  ELSE scan_elements(elements, s, i + 1)

\* lines 139-153: the loop over the selectors; an exception goes on with the
\* next selector
RECURSIVE scan_selectors(_, _)
scan_selectors(page, s) ==
  IF s > Len(DOWNLOAD_SELECTORS) THEN NoButton
  ELSE LET found == scan_elements(query_selector_all(page, s), s, 1)
       IN IF found = NoButton \/ found = <<"raise">>
          THEN scan_selectors(page, s + 1)
          ELSE found

find_download_button(page) == scan_selectors(page, 1)

NoDom == [pc |-> "idle", page |-> [first |-> <<>>, last |-> <<>>], attempt |-> 0,
          button |-> NoButton, clicked |-> <<>>, held |-> FALSE, rehandled |-> 0,
          out |-> "none"]

\* extract_via_dom(page): scroll_page, handle_modals, wait_for_countdown
DsStart(page) ==
  /\ fb.pc = "idle"
  /\ fb' = [NoDom EXCEPT !.pc = "find", !.page = page]
  /\ UNCHANGED <<mvars, pvars, rvars, fvars, api, clk, hu, nl>>

\* lines 223-226, 248-250: button = await find_download_button(page)
DsFind ==
  /\ fb.pc = "find"
  /\ LET button == find_download_button(fb.page)
     IN fb' = [fb EXCEPT !.button = button,
                         !.pc = IF button # NoButton THEN "click" ELSE "iframes"]
  /\ UNCHANGED <<mvars, pvars, rvars, fvars, api, clk, hu, nl>>

\* lines 229-243: the click, the two seconds in which responses may reach the
\* listener, and the look at the listener; `raise`: the click raised
DsClick(arrived, raise) ==
  /\ fb.pc = "click"
  /\ fb' = IF raise THEN [fb EXCEPT !.pc = "returned", !.out = "None"]
           ELSE LET c == [fb EXCEPT !.clicked = Append(@, fb.button),
                                    !.held = fb.held \/ arrived]
                IN IF c.held THEN [c EXCEPT !.pc = "returned", !.out = "captured"]
                   ELSE [c EXCEPT !.pc = "rehandle"]
  /\ UNCHANGED <<mvars, pvars, rvars, fvars, api, clk, hu, nl>>

\* lines 246-252: handle_modals, wait_for_countdown, random_delay, and the
\* next turn of `for attempt in range(3)`
DsRehandle ==
  /\ fb.pc = "rehandle"
  /\ fb' = [fb EXCEPT !.rehandled = @ + 1, !.attempt = @ + 1,
                      !.pc = IF fb.attempt + 1 < DomClickAttempts THEN "find"
                             ELSE "iframes"]
  /\ UNCHANGED <<mvars, pvars, rvars, fvars, api, clk, hu, nl>>

\* lines 255-277: the frames other than the main frame, then `return None`
DsIframes(arrived) ==
  /\ fb.pc = "iframes"
  /\ fb' = [fb EXCEPT !.pc = "returned", !.held = fb.held \/ arrived,
                      !.out = IF fb.held \/ arrived THEN "captured" ELSE "None"]
  /\ UNCHANGED <<mvars, pvars, rvars, fvars, api, clk, hu, nl>>

DsReset ==
  /\ fb.pc = "returned"
  /\ fb' = NoDom
  /\ UNCHANGED <<mvars, pvars, rvars, fvars, api, clk, hu, nl>>

DomStageNext ==
  \/ \E page \in Pages : DsStart(page)
  \/ DsFind
  \/ \E arrived \in BOOLEAN, raise \in BOOLEAN : DsClick(arrived, raise)
  \/ DsRehandle
  \/ \E arrived \in BOOLEAN : DsIframes(arrived)
  \/ DsReset

\* ================================================= the script-state stage
\* extract_via_js and JSLayer.extract_terabox_api (js_layer.py).  A missing
\* value (None, null, an absent key) is 0; `requests` lists the API requests
\* the page was made to fetch, in order.
ApiUrls ==
  {"https://terabox.com/s/1abc", "https://terabox.com/s/1",
   "https://terabox.com/sharing/link?surl=abc", "https://terabox.com/wap/share/filelist"}

\* lines 107-124: re.search(r'/s/1?([a-zA-Z0-9_-]+)', url), then the surl
\* query parameter; <<>> is None
_extract_surl(url) ==
  CASE url = "https://terabox.com/s/1abc" -> <<"abc">>
    [] url = "https://terabox.com/s/1" -> <<"1">>
    [] url = "https://terabox.com/sharing/link?surl=abc" -> <<"abc">>
    [] OTHER -> <<>>

ShareFiles ==
  { [fs_id |-> 7, size |-> 10, category |-> 1],
    [fs_id |-> 0, size |-> 20, category |-> 1],
    [fs_id |-> 8, size |-> 30, category |-> 6] }
ShareLists == {<<>>} \cup {<<f>> : f \in ShareFiles}
                \cup {<<f, g>> : f \in ShareFiles, g \in ShareFiles}
\* what the share-listing request answers
ShareAnswers ==
  [errno : {0, 2}, list : ShareLists, uk : {0, 5}, shareid : {0, 9}]

NoFile == [fs_id |-> 0, size |-> 0 - 1, category |-> 0]

\* max(files, key = size): the first of the largest
RECURSIVE Largest(_, _)
Largest(files, best) ==
  IF files = <<>> THEN best
  ELSE Largest(Tail(files), IF files[1].size > best.size THEN files[1] ELSE best)

RECURSIVE Videos(_)
Videos(files) ==
  IF files = <<>> THEN <<>>
  ELSE IF files[1].category = 1 THEN <<files[1]>> \o Videos(Tail(files))
  ELSE Videos(Tail(files))

\* lines 184-204: the largest video, or the largest file; NoFile is None
_extract_file_from_share(share_info) ==
  IF share_info.list = <<>> THEN NoFile
  ELSE IF Videos(share_info.list) # <<>> THEN Largest(Videos(share_info.list), NoFile)
  ELSE Largest(share_info.list, NoFile)

\* line 218: all([fs_id, uk, share_id])
all_params(fs_id, uk, share_id) == fs_id # 0 /\ uk # 0 /\ share_id # 0

NoApi == [pc |-> "idle", caller |-> "none", share_url |-> "", url |-> "",
          page_token |-> FALSE, surl |-> <<>>, share_info |-> <<>>,
          requests |-> <<>>, out |-> "none"]

\* pipeline.py line 163: `await extract_via_js(page)`, url keeps its default "";
\* any other caller gives the share URL
js_url(caller, share_url) == IF caller = "pipeline" THEN "" ELSE share_url

\* extract_via_js(page, url) on a page whose state holds a jsToken or not
JsCall(caller, share_url, page_token) ==
  /\ api.pc = "idle"
  /\ api' = [NoApi EXCEPT !.pc = "enter", !.caller = caller, !.share_url = share_url,
                          !.url = js_url(caller, share_url), !.page_token = page_token]
  /\ UNCHANGED <<mvars, pvars, rvars, fvars, fb, clk, hu, nl>>

\* js_layer.py lines 327-328 and 35-68: `if url:`, the surl, the jsToken
JsEnter ==
  /\ api.pc = "enter"
  /\ api' = IF api.url = "" THEN [api EXCEPT !.pc = "video"]
            ELSE LET surl == _extract_surl(api.url)
                 IN IF surl = <<>> \/ ~api.page_token
                    THEN [api EXCEPT !.pc = "video", !.surl = surl]
                    ELSE [api EXCEPT !.pc = "share_list", !.surl = surl]
  /\ UNCHANGED <<mvars, pvars, rvars, fvars, fb, clk, hu, nl>>

\* lines 71-80, 151-181: the share-listing request and the file chosen from it;
\* `ok` is whether the evaluation gave an answer at all
ApiShareList(ok, answer) ==
  /\ api.pc = "share_list"
  /\ LET a == [api EXCEPT !.requests = Append(@, "share/list")]
     IN api' = IF ok /\ answer.errno = 0 /\ _extract_file_from_share(answer) # NoFile
               THEN [a EXCEPT !.pc = "download", !.share_info = <<answer>>]
               ELSE [a EXCEPT !.pc = "video"]
  /\ UNCHANGED <<mvars, pvars, rvars, fvars, fb, clk, hu, nl>>

\* lines 83-100, 207-259: the download-link request, and the streaming
\* request when it gave no link
ApiDownload(dlink, stream) ==
  /\ api.pc = "download"
  /\ LET info == api.share_info[1]
         file == _extract_file_from_share(info)
     IN api' =
          IF ~all_params(file.fs_id, info.uk, info.shareid)
          THEN [api EXCEPT !.pc = "video"]
          ELSE IF dlink
          THEN [api EXCEPT !.requests = Append(@, "share/download"),
                           !.pc = "returned", !.out = "api"]
          ELSE [api EXCEPT !.requests = @ \o <<"share/download", "share/streaming">>,
                           !.pc = IF stream THEN "returned" ELSE "video",
                           !.out = IF stream THEN "api" ELSE "none"]
  /\ UNCHANGED <<mvars, pvars, rvars, fvars, fb, clk, hu, nl>>

\* lines 334-363: the video element of the page
JsVideo(found) ==
  /\ api.pc = "video"
  /\ api' = [api EXCEPT !.pc = "returned", !.out = IF found THEN "video" ELSE "None"]
  /\ UNCHANGED <<mvars, pvars, rvars, fvars, fb, clk, hu, nl>>

JsReset ==
  /\ api.pc = "returned"
  /\ api' = NoApi
  /\ UNCHANGED <<mvars, pvars, rvars, fvars, fb, clk, hu, nl>>

JsStageNext ==
  \/ \E caller \in {"pipeline", "direct"}, u \in ApiUrls, t \in BOOLEAN : JsCall(caller, u, t)
  \/ JsEnter
  \/ \E ok \in BOOLEAN, a \in ShareAnswers : ApiShareList(ok, a)
  \/ \E dlink \in BOOLEAN, stream \in BOOLEAN : ApiDownload(dlink, stream)
  \/ \E found \in BOOLEAN : JsVideo(found)
  \/ JsReset

\* ====================================================== simulated clicks
\* Humanizer.human_click (humanizer.py) and DOMLayer.click_with_human_behavior
\* (dom_layer.py).  Lengths are in tenths of a pixel; a draw of random.uniform
\* is one of a few values of its interval, the two ends included.
NoBox == [x |-> 0, y |-> 0, width |-> 0 - 1, height |-> 0 - 1]     \* bounding_box() is None
Boxes == [x : {0, 1000}, y : {0, 2000}, width : {40, 100, 3000}, height : {20, 60, 400}]
ClickFunctions == {"human_click", "click_with_human_behavior"}

\* random.uniform(-a, a)
Uniform5 == {0 - 50, 0 - 25, 0, 25, 50}         \* uniform(-5, 5)
Uniform3 == {0 - 30, 0, 30}                     \* uniform(-3, 3)
Fifths   == {0 - 20, 0 - 10, 0, 10, 20}         \* uniform(-0.2 * w, 0.2 * w), in hundredths of w

\* humanizer.py lines 174-177
human_click_point(box, fx, fy) ==
  [x |-> box.x + box.width \div 2 + (box.width * fx) \div 100,
   y |-> box.y + box.height \div 2 + (box.height * fy) \div 100]

\* dom_layer.py lines 180-181
dom_click_point(box, dx, dy) ==
  [x |-> box.x + box.width \div 2 + dx, y |-> box.y + box.height \div 2 + dy]

NoClick == [pc |-> "idle", fn |-> "none", box |-> NoBox, point |-> [x |-> 0, y |-> 0],
            out |-> "none"]

\* box = await element.bounding_box(); `if not box:`
ClickCall(fn, box) ==
  /\ clk.pc = "idle"
  /\ clk' = IF box # NoBox THEN [NoClick EXCEPT !.pc = "aim", !.fn = fn, !.box = box]
            ELSE [NoClick EXCEPT !.pc = "done", !.fn = fn,
                    !.out = IF fn = "human_click" THEN "Exception" ELSE "element.click"]
  /\ UNCHANGED <<mvars, pvars, rvars, fvars, fb, api, hu, nl>>

\* humanizer.py lines 174-191: the point, the movement to it, the press
HumanClick(fx, fy) ==
  /\ clk.pc = "aim" /\ clk.fn = "human_click"
  /\ clk' = [clk EXCEPT !.pc = "done", !.point = human_click_point(clk.box, fx, fy),
                        !.out = "clicked"]
  /\ UNCHANGED <<mvars, pvars, rvars, fvars, fb, api, hu, nl>>

\* dom_layer.py lines 180-190: the point, the movement, page.mouse.click(x, y)
DomLayerClick(dx, dy) ==
  /\ clk.pc = "aim" /\ clk.fn = "click_with_human_behavior"
  /\ clk' = [clk EXCEPT !.pc = "done", !.point = dom_click_point(clk.box, dx, dy),
                        !.out = "clicked"]
  /\ UNCHANGED <<mvars, pvars, rvars, fvars, fb, api, hu, nl>>

ClickReset ==
  /\ clk.pc = "done"
  /\ clk' = NoClick
  /\ UNCHANGED <<mvars, pvars, rvars, fvars, fb, api, hu, nl>>

ClickNext ==
  \/ \E fn \in ClickFunctions, box \in Boxes \cup {NoBox} : ClickCall(fn, box)
  \/ \E fx \in Fifths, fy \in Fifths : HumanClick(fx, fy)
  \/ \E dx \in Uniform5, dy \in Uniform3 : DomLayerClick(dx, dy)
  \/ ClickReset

\* ==================================================== one NetworkLayer
\* on_response calls of one NetworkLayer instance, one at a time: the call
\* awaits response.all_headers(), which gives the headers or raises.  `log`
\* keeps, for every call that ended, the response, whether its headers were
\* read, and the capture list before and after the call.
NoLayer == [pc |-> "idle", resp |-> Resp(NoneUrl, <<>>, Header("missing", 0), "None"),
            captured_urls |-> <<>>, log |-> <<>>, raised |-> FALSE]

\* network_layer.py lines 40-44: on_response(response) up to its await
NlResponse(resp) ==
  /\ nl.pc = "idle"
  /\ Len(nl.log) < MaxResponses
  /\ nl' = [nl EXCEPT !.pc = "headers", !.resp = resp]
  /\ UNCHANGED <<mvars, pvars, rvars, fvars, fb, api, clk, hu>>

\* lines 46-75: the headers were read (ok), or reading them raised and
\* `except Exception` logged the error
NlHeaders(ok) ==
  /\ nl.pc = "headers"
  /\ LET after == IF ok THEN on_response(nl.captured_urls, nl.resp) ELSE nl.captured_urls
     IN nl' = [nl EXCEPT !.pc = "idle", !.captured_urls = after,
                         !.log = Append(@, [resp |-> nl.resp, ok |-> ok,
                                            before |-> nl.captured_urls, after |-> after])]
  /\ UNCHANGED <<mvars, pvars, rvars, fvars, fb, api, clk, hu>>

\* network = NetworkLayer(): a new instance
NlNew ==
  /\ nl.pc = "idle"
  /\ nl.log # <<>>
  /\ nl' = NoLayer
  /\ UNCHANGED <<mvars, pvars, rvars, fvars, fb, api, clk, hu>>

NetworkNext ==
  \/ \E resp \in HeaderResponses : NlResponse(resp)
  \/ \E ok \in BOOLEAN : NlHeaders(ok)
  \/ NlNew

\* ========================================================= bot handlers
\* handle_url (bot/handlers.py): one task per incoming message, tasks of one
\* event loop.  A key is f"{user_id}:{url}" of a message whose URL passed the
\* check of the host.
HandlerTasks == {"h1", "h2"}
ExtractionKeys == {"7:https://terabox.com/s/1a", "7:https://terabox.com/s/1b"}
NoHandler == [pc |-> "idle", key |-> "", added |-> FALSE, exit |-> "none"]
HandlerInit == [active_extractions |-> {}, task |-> [t \in HandlerTasks |-> NoHandler]]

\* lines 119-121: finally: active_extractions.pop(extraction_key, None)
pop(active, key) == active \ {key}

\* lines 67-76: the duplicate check and the mark, with no await between them
HuMessage(t, key) ==
  /\ hu.task[t].pc = "idle"
  /\ hu' = IF key \in hu.active_extractions
           THEN [hu EXCEPT !.task[t] = [NoHandler EXCEPT !.pc = "answer_duplicate",
                                                         !.key = key]]
           ELSE [hu EXCEPT !.active_extractions = @ \cup {key},
                           !.task[t] = [NoHandler EXCEPT !.pc = "answer_processing",
                                                         !.key = key, !.added = TRUE]]
  /\ UNCHANGED <<mvars, pvars, rvars, fvars, fb, api, clk, nl>>

\* lines 69-73: await message.answer("already being processed"); return
HuDuplicate(t) ==
  /\ hu.task[t].pc = "answer_duplicate"
  /\ hu' = [hu EXCEPT !.task[t].pc = "done", !.task[t].exit = "duplicate"]
  /\ UNCHANGED <<mvars, pvars, rvars, fvars, fb, api, clk, nl>>

\* line 79: processing_msg = await message.answer(Messages.PROCESSING), before
\* the try statement; it returns, raises, or the task is cancelled there
HuProcessing(t, outcome) ==
  /\ hu.task[t].pc = "answer_processing"
  /\ hu' = IF outcome = "sent"
           THEN [hu EXCEPT !.task[t].pc = "run_extraction"]
           ELSE [hu EXCEPT !.task[t].pc = "done", !.task[t].exit = outcome]
  /\ UNCHANGED <<mvars, pvars, rvars, fvars, fb, api, clk, nl>>

\* lines 81-121: result = await run_extraction(url), the edit of the
\* processing message in the branch or handler that follows, and the finally
\* block; `outcome` is how run_extraction ended, `edited` whether the last
\* edit_text returned
HuExtraction(t, outcome, edited) ==
  /\ hu.task[t].pc = "run_extraction"
  /\ hu' = [hu EXCEPT !.active_extractions = pop(@, hu.task[t].key),
                      !.task[t].pc = "done",
                      !.task[t].exit = IF edited THEN outcome ELSE "raised"]
  /\ UNCHANGED <<mvars, pvars, rvars, fvars, fb, api, clk, nl>>

\* the task ended; the next message is handled by a new task
HuEnd(t) ==
  /\ hu.task[t].pc = "done"
  /\ hu' = [hu EXCEPT !.task[t] = NoHandler]
  /\ UNCHANGED <<mvars, pvars, rvars, fvars, fb, api, clk, nl>>

HandlerNext ==
  \/ \E t \in HandlerTasks, key \in ExtractionKeys : HuMessage(t, key)
  \/ \E t \in HandlerTasks : HuDuplicate(t)
  \/ \E t \in HandlerTasks, o \in {"sent", "raised", "cancelled"} : HuProcessing(t, o)
  \/ \E t \in HandlerTasks, o \in {"success", "failure", "raised", "cancelled"},
        edited \in BOOLEAN : HuExtraction(t, o, edited)
  \/ \E t \in HandlerTasks : HuEnd(t)

XInit ==
  /\ fb = NoDom
  /\ api = NoApi
  /\ clk = NoClick
  /\ hu = HandlerInit
  /\ nl = NoLayer

FInit ==
  /\ rng = NotSeeded
  /\ att = [a \in Attempts |-> NoAttempt]
  /\ hd = NoDelay
  /\ cd = NoCountdown

\* ==================================================== BrowserContextManager
\* ------------------------------------------------ BrowserContextManager()
ManagerInit ==
  /\ browser = None
  /\ playwright = None
  /\ lock = "free"

\* extract_with_stealth: locals before the first attempt
RunnerInit ==
  [N |-> 0, attempt |-> 0, context |-> None, page |-> None,
   body |-> "none", out |-> "none", res |-> "none", last_error |-> <<"none", -1>>,
   acquires |-> 0, opened |-> 0, callbacks |-> 0, sleeps |-> 0,
   cancelled |-> FALSE, result |-> "none", ret |-> "none",
   seeds |-> <<>>, delays |-> <<>>, url |-> NoneUrl, navigations |-> 0]

Init ==
  /\ ManagerInit
  /\ bproc = NoProc
  /\ drv = NoDrv
  /\ alive = 0
  /\ running = 0
  /\ ctx = [r \in Runners |-> NoCtx]
  /\ pc = [t \in Tasks |-> IF t = "m" THEN "idle" ELSE "ready"]
  /\ run = [r \in Runners |-> RunnerInit]
  /\ mgr = [op |-> "none", outcome |-> "none"]
  /\ faults = 0
  /\ PipeInit
  /\ UtilInit
  /\ FInit
  /\ XInit

\* ---------------------------------------------- extract_with_stealth loop
\* Entering `async with self.create_stealth_context(seed)` for the current
\* attempt: `context = None; page = None` and the scope starts with
\* `await self.initialize()`.
RECURSIVE SumSeq(_)
SumSeq(q) == IF q = <<>> THEN 0 ELSE q[1] + SumSeq(Tail(q))

\* asyncio.get_event_loop().time(), counted from the start of the call: the
\* clock advances in the sleeps between the attempts
loop_time(rr) == SumSeq(rr.delays)

\* line 162: seed = f"{url}_{attempt}_{asyncio.get_event_loop().time()}"
seed_of(rr) == <<"url", rr.attempt, loop_time(rr)>>

BeginAttempt(rr) ==
  [rr EXCEPT !.context = None, !.page = None, !.body = "none", !.out = "none",
             !.res = "none", !.acquires = @ + 1, !.seeds = Append(@, seed_of(rr))]

\* (variant: exponential backoff)
retry_delay_exponential(attempt) == Pow(2, attempt + 1)

\* line 181: delay = (attempt + 1) * 2
retry_delay(attempt) == (attempt + 1) * 2

\* What follows the scope once its outcome is known (lines 169-188).
\*   success          : `return result`
\*   cancel           : CancelledError is not an Exception and leaves the function
\*   fail             : last_error = result.error, then the delay test
\*   raise/setup/init : except Exception: last_error = str(e), then the delay test
\* (variant: the delay test written `attempt < max_retries`)
LastAttemptOffByOne(rr) == ~(rr.attempt < rr.N)

LastAttempt(rr) == ~(rr.attempt < rr.N - 1)

\* (variant: the attempt is not wrapped in `except Exception`)
AfterScopeRecUncaught(rr) ==
  CASE rr.out = "success" -> [rr EXCEPT !.result = "success", !.ret = rr.res]
    [] rr.out = "cancel"  -> [rr EXCEPT !.result = "cancelled"]
    [] rr.out = "fail" ->
         LET e == [rr EXCEPT !.last_error = <<"result", rr.attempt>>]
         IN IF LastAttempt(rr) THEN [e EXCEPT !.result = "failure"]
            ELSE [e EXCEPT !.delays = Append(@, retry_delay(rr.attempt))]
    [] OTHER -> [rr EXCEPT !.result = "raised"]

AfterScopeRec(rr) ==
  CASE rr.out = "success" -> [rr EXCEPT !.result = "success", !.ret = rr.res]
    [] rr.out = "cancel"  -> [rr EXCEPT !.result = "cancelled"]
    [] OTHER ->
         LET e == [rr EXCEPT !.last_error =
                      <<IF rr.out = "fail" THEN "result" ELSE "exc", rr.attempt>>]
         IN IF LastAttempt(rr) THEN [e EXCEPT !.result = "failure"]
            ELSE [e EXCEPT !.delays = Append(@, retry_delay(rr.attempt))]

AfterScopePc(rr) ==
  IF rr.out \in {"success", "cancel"} THEN "done"
  ELSE IF LastAttempt(rr) THEN "done" ELSE "sleep"

\* extract_with_stealth(url, extractor_callback, max_retries = n)
Start(r, n) ==
  /\ pc[r] = "ready"
  /\ \E url \in ShareUrls :
       run' = [run EXCEPT ![r] = BeginAttempt([@ EXCEPT !.N = n, !.url = url])]
  /\ pc' = [pc EXCEPT ![r] = "init_acq"]
  /\ UNCHANGED <<browser, playwright, lock, bproc, drv, alive, running, ctx, mgr, faults>>
  /\ UNCHANGED <<pvars, uvars>>

\* `await asyncio.sleep(delay)` between two attempts, then the next attempt
Sleep(r) ==
  /\ pc[r] = "sleep"
  /\ \/ /\ run' = [run EXCEPT ![r] =
                     BeginAttempt([@ EXCEPT !.sleeps = @ + 1, !.attempt = @ + 1])]
        /\ ctx' = [ctx EXCEPT ![r] = NoCtx]
        /\ pc' = [pc EXCEPT ![r] = "init_acq"]
     \/ /\ ~run[r].cancelled
        /\ run' = [run EXCEPT ![r] = [@ EXCEPT !.cancelled = TRUE, !.result = "cancelled"]]
        /\ pc' = [pc EXCEPT ![r] = "done"]
        /\ ctx' = ctx
  /\ UNCHANGED <<browser, playwright, lock, bproc, drv, alive, running, mgr, faults>>
  /\ UNCHANGED <<pvars, uvars>>

\* ------------------------------------------------------------ initialize()
\* Where a task continues when initialize() returns, and when it raises.
InitReturnPc(t) == IF t \in Runners THEN "new_context" ELSE "idle"

InitRaise(t) ==
  IF t \in Runners
  THEN LET rr == [run[t] EXCEPT !.body = "init", !.out = "init"]
       IN /\ run' = [run EXCEPT ![t] = AfterScopeRec(rr)]
          /\ pc' = [pc EXCEPT ![t] = AfterScopePc(rr)]
          /\ mgr' = mgr
  ELSE /\ pc' = [pc EXCEPT ![t] = "idle"]
       /\ mgr' = [mgr EXCEPT !.outcome = "raised"]
       /\ run' = run

\* (variant: initialize() and close() without the lock)
LockIgnored == TRUE

\* `async with self._lock:` entered only when no task holds the lock
LockFree == lock = "free"

\* `if self._browser is None`
NeedsLaunch == browser = None

\* async with self._lock: if self._browser is None: ...
InitAcquire(t) ==
  /\ pc[t] = "init_acq"
  /\ LockFree
  /\ IF NeedsLaunch
     THEN /\ lock' = t
          /\ pc' = [pc EXCEPT ![t] = "init_start"]
          /\ mgr' = mgr
     ELSE /\ lock' = lock
          /\ pc' = [pc EXCEPT ![t] = InitReturnPc(t)]
          /\ mgr' = IF t = "m" THEN [mgr EXCEPT !.outcome = "returned"] ELSE mgr
  /\ UNCHANGED <<browser, playwright, bproc, drv, alive, running, ctx, run, faults>>
  /\ UNCHANGED <<pvars, uvars>>

\* self._playwright = await async_playwright().start()
InitStart(t) ==
  /\ pc[t] = "init_start"
  /\ \/ /\ drv' = [running |-> TRUE, stops |-> 0]
        /\ running' = running + 1
        /\ playwright' = Handle
        /\ pc' = [pc EXCEPT ![t] = "init_launch"]
        /\ UNCHANGED <<lock, run, mgr, faults>>
     \/ /\ CanFault
        /\ faults' = faults + 1
        /\ lock' = "free"
        /\ InitRaise(t)
        /\ UNCHANGED <<drv, running, playwright>>
  /\ UNCHANGED <<browser, bproc, alive, ctx>>
  /\ UNCHANGED <<pvars, uvars>>

\* self._browser = await self._playwright.chromium.launch(...)
InitLaunch(t) ==
  /\ pc[t] = "init_launch"
  /\ \/ /\ bproc' = [alive |-> TRUE, closes |-> 0]
        /\ alive' = alive + 1
        /\ browser' = Handle
        /\ lock' = "free"
        /\ pc' = [pc EXCEPT ![t] = InitReturnPc(t)]
        /\ mgr' = IF t = "m" THEN [mgr EXCEPT !.outcome = "returned"] ELSE mgr
        /\ UNCHANGED <<run, faults>>
     \/ /\ CanFault
        /\ faults' = faults + 1
        /\ lock' = "free"
        /\ InitRaise(t)
        /\ UNCHANGED <<bproc, alive, browser>>
  /\ UNCHANGED <<playwright, drv, running, ctx>>
  /\ UNCHANGED <<pvars, uvars>>

\* ------------------------------------------------------------------ close()
\* async with self._lock: if self._browser: ... ; if self._playwright: ...
CloseAcquire(t) ==
  /\ pc[t] = "close_acq"
  /\ LockFree
  /\ IF browser # None
     THEN /\ lock' = t
          /\ pc' = [pc EXCEPT ![t] = "close_browser"]
          /\ mgr' = mgr
     ELSE IF playwright # None
          THEN /\ lock' = t
               /\ pc' = [pc EXCEPT ![t] = "close_stop"]
               /\ mgr' = mgr
          ELSE /\ lock' = "free"
               /\ pc' = [pc EXCEPT ![t] = "idle"]
               /\ mgr' = [mgr EXCEPT !.outcome = "returned"]
  /\ UNCHANGED <<browser, playwright, bproc, drv, alive, running, ctx, run, faults>>
  /\ UNCHANGED <<pvars, uvars>>

\* (variant: close() without `self._browser = None`)
BrowserKept == browser

\* The handle after `await self._browser.close()` returned
BrowserAfterClose == None

\* await self._browser.close(); self._browser = None; if self._playwright: ...
CloseBrowser(t) ==
  /\ pc[t] = "close_browser"
  /\ \/ /\ bproc' = [alive |-> FALSE, closes |-> bproc.closes + 1]
        /\ alive' = IF bproc.alive THEN alive - 1 ELSE alive
        /\ ctx' = ContextsAfterBrowserClose
        /\ browser' = BrowserAfterClose
        /\ IF playwright # None
           THEN /\ pc' = [pc EXCEPT ![t] = "close_stop"]
                /\ UNCHANGED <<lock, mgr>>
           ELSE /\ pc' = [pc EXCEPT ![t] = "idle"]
                /\ lock' = "free"
                /\ mgr' = [mgr EXCEPT !.outcome = "returned"]
        /\ UNCHANGED faults
     \/ /\ CanFault
        /\ faults' = faults + 1
        /\ lock' = "free"
        /\ pc' = [pc EXCEPT ![t] = "idle"]
        /\ mgr' = [mgr EXCEPT !.outcome = "raised"]
        /\ UNCHANGED <<bproc, alive, ctx, browser>>
  /\ UNCHANGED <<playwright, drv, running, run>>
  /\ UNCHANGED <<pvars, uvars>>

\* await self._playwright.stop(); self._playwright = None
CloseStop(t) ==
  /\ pc[t] = "close_stop"
  /\ \/ /\ drv' = [running |-> FALSE, stops |-> drv.stops + 1]
        /\ running' = IF drv.running THEN running - 1 ELSE running
        /\ playwright' = None
        /\ mgr' = [mgr EXCEPT !.outcome = "returned"]
        /\ UNCHANGED faults
     \/ /\ CanFault
        /\ faults' = faults + 1
        /\ mgr' = [mgr EXCEPT !.outcome = "raised"]
        /\ UNCHANGED <<drv, running, playwright>>
  /\ lock' = "free"
  /\ pc' = [pc EXCEPT ![t] = "idle"]
  /\ UNCHANGED <<browser, bproc, alive, ctx, run>>
  /\ UNCHANGED <<pvars, uvars>>

\* on_startup / on_shutdown and any other caller: the next call on the manager
MgrCall(op) ==
  /\ pc["m"] = "idle"
  /\ mgr' = [op |-> op, outcome |-> "running"]
  /\ pc' = [pc EXCEPT !["m"] = IF op = "initialize" THEN "init_acq" ELSE "close_acq"]
  /\ UNCHANGED <<browser, playwright, lock, bproc, drv, alive, running, ctx, run, faults>>
  /\ UNCHANGED <<pvars, uvars>>

\* --------------------------------------------------- create_stealth_context
\* Leaving the scope (the generator ends or an exception leaves `finally`).
LeaveScope(r, rr, c) ==
  /\ ctx' = [ctx EXCEPT ![r] = [c EXCEPT !.exit = rr.out, !.body = rr.body]]
  /\ run' = [run EXCEPT ![r] = AfterScopeRec(rr)]
  /\ pc' = [pc EXCEPT ![r] = AfterScopePc(rr)]

\* (variant: no try/finally around the scope)
EnterFinallyNoCleanup(r, rr, c) == LeaveScope(r, rr, c)

\* (variant: the context close nested under `if page:`)
EnterFinallyPageOnly(r, rr, c) ==
  IF rr.page # None
  THEN /\ ctx' = [ctx EXCEPT ![r] = c]
       /\ run' = [run EXCEPT ![r] = rr]
       /\ pc' = [pc EXCEPT ![r] = "close_page"]
  ELSE LeaveScope(r, rr, c)

\* finally: `if page:` ... `if context:` ...
EnterFinally(r, rr, c) ==
  IF rr.page # None
  THEN /\ ctx' = [ctx EXCEPT ![r] = c]
       /\ run' = [run EXCEPT ![r] = rr]
       /\ pc' = [pc EXCEPT ![r] = "close_page"]
  ELSE IF rr.context # None
       THEN /\ ctx' = [ctx EXCEPT ![r] = c]
            /\ run' = [run EXCEPT ![r] = rr]
            /\ pc' = [pc EXCEPT ![r] = "close_ctx"]
       ELSE LeaveScope(r, rr, c)

\* The try block ends with outcome o (returned at the yield, or raised).
EndTry(r, rr, o, p, c) ==
  EnterFinally(r, [rr EXCEPT !.body = o, !.out = o, !.res = p], c)

\* A task is cancelled at most once; CancelledError is raised at its await.
CancelTry(r, rr, c) ==
  /\ ~rr.cancelled
  /\ EnterFinally(r, [rr EXCEPT !.cancelled = TRUE, !.body = "cancel", !.out = "cancel"], c)

\* context = await self._browser.new_context(**context_options)
NewContext(r) ==
  /\ pc[r] = "new_context"
  /\ \/ /\ browser # None
        /\ bproc.alive
        /\ ctx' = [ctx EXCEPT ![r] = [NoCtx EXCEPT !.made = TRUE, !.open = TRUE]]
        /\ run' = [run EXCEPT ![r] = [@ EXCEPT !.context = Handle, !.opened = @ + 1]]
        /\ pc' = [pc EXCEPT ![r] = "new_page"]
        /\ UNCHANGED faults
     \/ /\ browser = None \/ ~bproc.alive     \* AttributeError on None, or closed
        /\ EndTry(r, run[r], "setup", "none", ctx[r])
        /\ UNCHANGED faults
     \/ /\ browser # None
        /\ bproc.alive
        /\ CanFault
        /\ faults' = faults + 1
        /\ EndTry(r, run[r], "setup", "none", ctx[r])
     \/ /\ CancelTry(r, run[r], ctx[r])
        /\ UNCHANGED faults
  /\ UNCHANGED <<browser, playwright, lock, bproc, drv, alive, running, mgr>>
  /\ UNCHANGED <<pvars, uvars>>

\* page = await context.new_page()
NewPage(r) ==
  /\ pc[r] = "new_page"
  /\ \/ /\ ctx[r].open
        /\ ctx' = [ctx EXCEPT ![r] = [@ EXCEPT !.page = "open"]]
        /\ run' = [run EXCEPT ![r] = [@ EXCEPT !.page = Handle]]
        /\ pc' = [pc EXCEPT ![r] = "setup"]
        /\ UNCHANGED faults
     \/ /\ ~ctx[r].open               \* the browser was closed meanwhile
        /\ EndTry(r, run[r], "setup", "none", ctx[r])
        /\ UNCHANGED faults
     \/ /\ ctx[r].open
        /\ CanFault
        /\ faults' = faults + 1
        /\ EndTry(r, run[r], "setup", "none", ctx[r])
     \/ /\ CancelTry(r, run[r], ctx[r])
        /\ UNCHANGED faults
  /\ UNCHANGED <<browser, playwright, lock, bproc, drv, alive, running, mgr>>
  /\ UNCHANGED <<pvars, uvars>>

\* await inject_stealth_scripts(...); await AdvancedEvasion.inject_all(...);
\* page.set_default_timeout(...); page.set_default_navigation_timeout(...)
Setup(r) ==
  /\ pc[r] = "setup"
  /\ \/ /\ ctx[r].page = "open"
        /\ pc' = [pc EXCEPT ![r] = "body"]
        /\ UNCHANGED <<ctx, run, faults>>
     \/ /\ ctx[r].page # "open"
        /\ EndTry(r, run[r], "setup", "none", ctx[r])
        /\ UNCHANGED faults
     \/ /\ ctx[r].page = "open"
        /\ CanFault
        /\ faults' = faults + 1
        /\ EndTry(r, run[r], "setup", "none", ctx[r])
     \/ /\ CancelTry(r, run[r], ctx[r])
        /\ UNCHANGED faults
  /\ UNCHANGED <<browser, playwright, lock, bproc, drv, alive, running, mgr>>
  /\ UNCHANGED <<pvars, uvars>>

\* the error of the result extract returns before it attaches its listener
\* (pipeline.py lines 51-55)
InvalidUrl == "Invalid Terabox URL. Please provide a valid share link."

\* the share URLs that fail `URLValidator.is_valid_terabox_url(url)` (line 51)
RejectedUrls == {u \in ShareUrls : ~is_valid_terabox_url(u)}

\* yield context, page, fingerprint:
\*   result = await extractor_callback(page, fingerprint)
\* The callback of run_extraction is ExtractionPipeline.extract(page,
\* fingerprint, url): for a URL that fails the check of the host it returns a
\* failed result at once, without an await; for any other URL it attaches its
\* listener and navigates, and may end in every way.
Body(r) ==
  /\ pc[r] = "body"
  /\ LET c  == [ctx[r] EXCEPT !.cb = @ + 1]
         rr == [run[r] EXCEPT !.callbacks = @ + 1]
         nv == [rr EXCEPT !.navigations = @ + 1]
     IN IF run[r].url \in RejectedUrls
        THEN EndTry(r, rr, "fail", InvalidUrl, c)
        ELSE \/ \E p \in Payloads : EndTry(r, nv, "success", p, c)
             \/ \E p \in Payloads : EndTry(r, nv, "fail", p, c)
             \/ EndTry(r, nv, "raise", "none", c)
             \/ CancelTry(r, nv, c)
  /\ UNCHANGED <<browser, playwright, lock, bproc, drv, alive, running, mgr, faults>>
  /\ UNCHANGED <<pvars, uvars>>

\* (variant: page.close() outside a try, its error leaves the finally block)
PageCloseErrorPropagates(r, c) ==
  LeaveScope(r, [run[r] EXCEPT !.out = "raise"], [c EXCEPT !.pageCloseRaised = TRUE])

\* `except Exception as e: logger.warning(...)` around `await page.close()`:
\* the error is logged and the finally block goes on to `if context:`
PageCloseError(r, c) ==
  /\ ctx' = [ctx EXCEPT ![r] = [c EXCEPT !.pageCloseRaised = TRUE]]
  /\ pc' = [pc EXCEPT ![r] = "close_ctx"]
  /\ UNCHANGED run

\* finally: if page: try: await page.close() except Exception: log
ClosePage(r) ==
  /\ pc[r] = "close_page"
  /\ LET c == [ctx[r] EXCEPT !.pageCloseCalled = TRUE] IN
     \/ /\ ctx' = [ctx EXCEPT ![r] = ClosePageOf(c)]
        /\ pc' = [pc EXCEPT ![r] = "close_ctx"]
        /\ UNCHANGED <<run, faults>>
     \/ /\ CanFault
        /\ faults' = faults + 1
        /\ PageCloseError(r, c)
     \/ /\ ~run[r].cancelled          \* CancelledError passes `except Exception`
        /\ LeaveScope(r, [run[r] EXCEPT !.cancelled = TRUE, !.out = "cancel"], c)
        /\ UNCHANGED faults
  /\ UNCHANGED <<browser, playwright, lock, bproc, drv, alive, running, mgr>>
  /\ UNCHANGED <<pvars, uvars>>

\* finally: if context: try: await context.close() except Exception: log
CloseContext(r) ==
  /\ pc[r] = "close_ctx"
  /\ LET c == [ctx[r] EXCEPT !.ctxCloseCalled = TRUE] IN
     \/ /\ LeaveScope(r, run[r], CloseCtxOf(c))
        /\ UNCHANGED faults
     \/ /\ CanFault
        /\ faults' = faults + 1
        /\ LeaveScope(r, run[r], [c EXCEPT !.ctxCloseRaised = TRUE])
     \/ /\ ~run[r].cancelled
        /\ LeaveScope(r, [run[r] EXCEPT !.cancelled = TRUE, !.out = "cancel"], c)
        /\ UNCHANGED faults
  /\ UNCHANGED <<browser, playwright, lock, bproc, drv, alive, running, mgr>>
  /\ UNCHANGED <<pvars, uvars>>

\* ============================================= ExtractionPipeline.extract
\* (variant: the listener stays on the page)
remove_listener_kept(ls, l) == ls

\* page.remove_listener('response', network.on_response)
remove_listener(ls, l) == ls \ {l}

\* `return ...` of extract, through `finally: page.remove_listener(...)`;
\* `ls` are the listeners on the page when the finally block is entered
Return(res, chk, ls) ==
  /\ presult' = res
  /\ checked' = chk
  /\ listeners' = remove_listener(ls, "pipeline")
  /\ ppc' = "p_done"

ReturnBuilt(data, layer, ls) ==
  LET b == _build_result(data, layer)
  IN Return(b.result, Append(checked, b.validated), ls)

Out(data) == IF data # NoData THEN "found" ELSE "nothing"

\* lines 68-77: the network stage returned `data`
AfterNetwork(data) ==
  /\ outs' = Append(outs, Out(data))
  /\ IF Found(data)
     THEN /\ ReturnBuilt(data, "network", listeners)
          /\ UNCHANGED calls
     ELSE /\ calls' = Append(calls, "javascript")
          /\ ppc' = "js"
          /\ UNCHANGED <<presult, checked, listeners>>
  /\ UNCHANGED <<purl, captured, clicks, nresp, pending, late>>

\* handlers of a NetworkLayer instance that is no longer referenced append
\* to a list nobody reads: they are dropped when the name is rebound
Rebind(l) ==
  LET keep == {h \in BagToSet(pending) : h.l # l}
  IN [h \in keep |-> pending[h]]

\* lines 77-86: the script-state stage returned `data`; extract_via_dom
\* starts with its own NetworkLayer and listener
AfterJs(data) ==
  /\ outs' = Append(outs, Out(data))
  /\ IF Found(data)
     THEN /\ ReturnBuilt(data, "javascript", listeners)
          /\ UNCHANGED <<calls, captured, clicks, pending>>
     ELSE /\ calls' = Append(calls, "dom")
          /\ listeners' = listeners \cup {"dom"}
          /\ captured' = [captured EXCEPT !.dom = <<>>]
          /\ pending' = Rebind("dom")
          /\ clicks' = 0
          /\ ppc' = "dom_prep"
          /\ UNCHANGED <<presult, checked>>
  /\ UNCHANGED <<purl, nresp, late>>

\* (variant: no look at the listener after the stages)
late_best_skipped(cap) == NoCapture

\* line 94: best = network.get_best_url() after all stages
late_best(cap) == get_best_url(cap)

\* lines 86-107: extract_via_dom returned `data`, `ls` are the listeners left
\* on the page; then the late look at the pipeline's own listener
AfterDom(data, ls) ==
  /\ outs' = Append(outs, Out(data))
  /\ IF Found(data)
     THEN /\ ReturnBuilt(data, "dom", ls)
          /\ UNCHANGED late
     ELSE LET best == late_best(captured.pipeline)
          IN /\ late' = Append(late, captured.pipeline)
             /\ IF best # NoCapture
                THEN Return(ExtractionResult(TRUE, best.url, best.filename,
                                             best.content_length,
                                             get_file_type(best.content_type), "None",
                                             "network_late"),
                            checked, ls)
                ELSE Return(Failure("Could not extract download link"), checked, ls)
  /\ UNCHANGED <<purl, captured, calls, clicks, nresp, pending>>

\* ExtractionPipeline.extract(page, fingerprint, url) up to page.goto
Extract(u) ==
  /\ ppc = "p_ready"
  /\ purl' = u
  /\ IF ~is_valid_terabox_url(u)
     THEN /\ presult' = Failure("Invalid Terabox URL")
          /\ ppc' = "p_done"
          /\ UNCHANGED <<listeners, captured, calls, pending>>
     ELSE /\ listeners' = listeners \cup {"pipeline"}
          /\ captured' = [captured EXCEPT !.pipeline = <<>>]
          /\ pending' = Rebind("pipeline")
          /\ calls' = <<"network">>
          /\ ppc' = "goto"
          /\ UNCHANGED presult
  /\ UNCHANGED <<outs, checked, clicks, nresp, late>>
  /\ UNCHANGED <<mvars, uvars, nav>>

\* what page.goto raises: str(e) of a playwright TimeoutError or Error
NavigationErrors == {"Timeout 30000ms exceeded"}

\* (variant: the exception of page.goto leaves _try_network_layer and extract
\* reports it)
GotoPropagates ==
  /\ ppc = "goto"
  /\ \/ /\ ppc' = "wait_idle"
        /\ UNCHANGED <<purl, listeners, captured, calls, outs, checked, presult, clicks,
                       nresp, pending, late, nav>>
     \/ \E e \in NavigationErrors :
          /\ nav' = e
          /\ Return(Failure(e), checked, listeners)
          /\ UNCHANGED <<purl, captured, calls, outs, clicks, nresp, pending, late>>
  /\ UNCHANGED <<mvars, uvars>>

\* _try_network_layer: await page.goto(...); an exception returns None
Goto ==
  /\ ppc = "goto"
  /\ \/ /\ ppc' = "wait_idle"
        /\ UNCHANGED <<purl, listeners, captured, calls, outs, checked, presult, clicks,
                       nresp, pending, late, nav>>
     \/ \E e \in NavigationErrors :      \* except Exception as e: log, return None
          /\ nav' = e
          /\ AfterNetwork(NoData)
  /\ UNCHANGED <<mvars, uvars>>

\* await page.wait_for_load_state('networkidle'), its timeout is ignored
WaitIdle ==
  /\ ppc = "wait_idle"
  /\ ppc' = "human_delay"
  /\ UNCHANGED <<purl, listeners, captured, calls, outs, checked, presult, clicks,
                 nresp, pending, late>>
  /\ UNCHANGED <<mvars, uvars, nav>>

\* await Humanizer.human_delay(2000, 0.3); best = network.get_best_url()
HumanDelay ==
  /\ ppc = "human_delay"
  /\ AfterNetwork(BestData(get_best_url(captured.pipeline)))
  /\ UNCHANGED <<mvars, uvars, nav>>

\* _try_js_layer: extract_via_js(page) with url = "": the <video> source
JsStage ==
  /\ ppc = "js"
  /\ \/ \E video_src \in VideoSrcs :
          AfterJs(IF video_src # EmptyUrl /\ is_cdn_url(video_src)
                  THEN StageData(video_src, "None", NoSize, "video")
                  ELSE NoData)
     \/ AfterJs(NoData)                  \* page.evaluate raised
  /\ UNCHANGED <<mvars, uvars, nav>>

\* extract_via_dom returns through `finally: page.remove_listener(...)`
DomReturn(data) == AfterDom(data, remove_listener(listeners, "dom"))

\* extract_via_dom: scroll_page, handle_modals, wait_for_countdown
DomPrep ==
  /\ ppc = "dom_prep"
  /\ \/ /\ ppc' = "dom_find"
        /\ UNCHANGED <<purl, listeners, captured, calls, outs, checked, presult, clicks,
                       nresp, pending, late>>
     \/ DomReturn(NoData)
  /\ UNCHANGED <<mvars, uvars, nav>>

\* for attempt in range(3): button = await DOMLayer.find_download_button(page)
DomFind ==
  /\ ppc = "dom_find"
  /\ \/ /\ ppc' = "dom_click"
        /\ UNCHANGED <<purl, listeners, captured, calls, outs, checked, presult, clicks,
                       nresp, pending, late>>
     \/ /\ ppc' = "dom_iframes"            \* no button: break
        /\ UNCHANGED <<purl, listeners, captured, calls, outs, checked, presult, clicks,
                       nresp, pending, late>>
     \/ DomReturn(NoData)
  /\ UNCHANGED <<mvars, uvars, nav>>

\* click_with_human_behavior; asyncio.sleep(2); best = network.get_best_url()
DomClick ==
  /\ ppc = "dom_click"
  /\ \/ LET best == get_best_url(captured.dom)
        IN IF best # NoCapture
           THEN DomReturn(BestData(best))
           ELSE /\ ppc' = "dom_after"
                /\ UNCHANGED <<purl, listeners, captured, calls, outs, checked, presult,
                               clicks, nresp, pending, late>>
     \/ DomReturn(NoData)
  /\ UNCHANGED <<mvars, uvars, nav>>

\* handle_modals; wait_for_countdown; Humanizer.random_delay; next attempt
DomAfter ==
  /\ ppc = "dom_after"
  /\ \/ /\ clicks' = clicks + 1
        /\ ppc' = IF clicks + 1 < DomClickAttempts THEN "dom_find" ELSE "dom_iframes"
        /\ UNCHANGED <<purl, listeners, captured, calls, outs, checked, presult, nresp,
                       pending, late>>
     \/ DomReturn(NoData)
  /\ UNCHANGED <<mvars, uvars, nav>>

\* for frame in page.frames: click its button, sleep, look at the listener
DomIframes ==
  /\ ppc = "dom_iframes"
  /\ \/ DomReturn(NoData)                      \* no (further) frame
     \/ /\ get_best_url(captured.dom) # NoCapture
        /\ DomReturn(BestData(get_best_url(captured.dom)))
  /\ UNCHANGED <<mvars, uvars, nav>>

DomPcs   == {"dom_prep", "dom_find", "dom_click", "dom_after", "dom_iframes"}
AwaitPcs == {"goto", "wait_idle", "human_delay", "js"} \cup DomPcs

\* asyncio.CancelledError delivered at the await where extract is suspended:
\* no `except Exception` catches it, the finally blocks run (extract_via_dom's
\* first when the DOM stage is running), and it leaves extract
Cancelled ==
  /\ ppc \in AwaitPcs
  /\ ppc' = "p_cancelled"
  /\ listeners' = remove_listener(IF ppc \in DomPcs
                                  THEN remove_listener(listeners, "dom")
                                  ELSE listeners,
                                  "pipeline")
  /\ UNCHANGED <<purl, captured, calls, outs, checked, presult, clicks, nresp, pending, late>>
  /\ UNCHANGED <<mvars, uvars, nav>>

\* The page receives a response while extract is suspended: the event
\* emitter starts on_response of every attached listener as a task of its
\* own, which first awaits response.all_headers()
Response(resp) ==
  /\ ppc \in AwaitPcs
  /\ nresp < MaxResponses
  /\ nresp' = nresp + 1
  /\ pending' = pending (+) SetToBag({[l |-> l, resp |-> resp] : l \in listeners})
  /\ UNCHANGED <<ppc, purl, listeners, captured, calls, outs, checked, presult, clicks, late>>
  /\ UNCHANGED <<mvars, uvars, nav>>

\* on_response resumes with the headers (ok) or with their failure, which
\* `except Exception` swallows; the classification and the append run
\* without another await
HandlerDone(h, ok) ==
  /\ BagIn(h, pending)
  /\ pending' = pending (-) SetToBag({h})
  /\ captured' = [captured EXCEPT ![h.l] = IF ok THEN on_response(@, h.resp) ELSE @]
  /\ UNCHANGED <<ppc, purl, listeners, calls, outs, checked, presult, clicks, nresp, late>>
  /\ UNCHANGED <<mvars, uvars, nav>>

\* the callback of the next attempt calls extract again, on a new page
NextAttempt ==
  /\ ppc \in {"p_done", "p_cancelled"}
  /\ ppc' = "p_ready"
  /\ purl' = NoneUrl
  /\ calls' = <<>>
  /\ outs' = <<>>
  /\ checked' = <<>>
  /\ presult' = NoResult
  /\ clicks' = 0
  /\ nresp' = 0
  /\ late' = <<>>
  /\ captured' = [pipeline |-> <<>>, dom |-> <<>>]
  /\ pending' = EmptyBag
  /\ nav' = "None"
  /\ UNCHANGED listeners
  /\ UNCHANGED <<mvars, uvars>>

PipeNext ==
  \/ \E u \in ShareUrls : Extract(u)
  \/ Goto
  \/ WaitIdle
  \/ HumanDelay
  \/ JsStage
  \/ DomPrep
  \/ DomFind
  \/ DomClick
  \/ DomAfter
  \/ DomIframes
  \/ Cancelled
  \/ \E resp \in Responses : Response(resp)
  \/ \E h \in BagToSet(pending) : \E ok \in BOOLEAN : HandlerDone(h, ok)
  \/ NextAttempt

PipeSpec == Init /\ [][PipeNext]_vars

ValidatorSpec == Init /\ [][ValNext]_vars

RetrySpec == Init /\ [][RetryNext]_vars

FingerprintSpec == Init /\ [][FingerprintNext]_vars

HumanSpec == Init /\ [][HumanNext]_vars

CountdownSpec == Init /\ [][CountdownNext]_vars

DomStageSpec == Init /\ [][DomStageNext]_vars

JsStageSpec == Init /\ [][JsStageNext]_vars

ClickSpec == Init /\ [][ClickNext]_vars

NetworkSpec == Init /\ [][NetworkNext]_vars

HandlerSpec == Init /\ [][HandlerNext]_vars

\* ------------------------------------------------------------ specification
Next ==
  \/ \E r \in Runners : \E n \in 1..MaxRetries : Start(r, n)
  \/ \E t \in Tasks : InitAcquire(t)
  \/ \E t \in Tasks : InitStart(t)
  \/ \E t \in Tasks : InitLaunch(t)
  \/ \E r \in Runners : NewContext(r)
  \/ \E r \in Runners : NewPage(r)
  \/ \E r \in Runners : Setup(r)
  \/ \E r \in Runners : Body(r)
  \/ \E r \in Runners : ClosePage(r)
  \/ \E r \in Runners : CloseContext(r)
  \/ \E r \in Runners : Sleep(r)
  \/ \E op \in {"initialize", "close"} : MgrCall(op)
  \/ CloseAcquire("m")
  \/ CloseBrowser("m")
  \/ CloseStop("m")

Spec == Init /\ [][Next]_vars

TypeOK ==
  /\ browser \in {None, Handle}
  /\ playwright \in {None, Handle}
  /\ lock \in Tasks \cup {"free"}
  /\ faults \in 0..MaxFaults

\* ================================================================== claims
FailedOut == {"fail", "raise", "setup", "init"}
BodyExits == {"success", "fail", "raise", "setup"}

\* C1: extract_with_stealth with max_retries = N >= 1 whose attempts all fail
\* (failed result or exception) makes exactly N attempts, each entering its
\* own create_stealth_context scope (one callback at most per opened context),
\* sleeps only between attempts, N-1 times in all, and returns success=false.
C1_ExhaustedBudget ==
  \A r \in Runners :
    pc[r] # "ready" =>
      /\ run[r].acquires = run[r].attempt + 1
      /\ run[r].sleeps = run[r].attempt
      /\ run[r].attempt < run[r].N
      /\ run[r].callbacks <= run[r].opened
      /\ run[r].opened <= run[r].acquires
      /\ ctx[r].cb <= 1
      /\ (pc[r] = "sleep" => run[r].attempt < run[r].N - 1)
      /\ (pc[r] = "done" /\ run[r].out \in FailedOut /\ run[r].result # "cancelled"
            => /\ run[r].result = "failure"
               /\ run[r].acquires = run[r].N
               /\ run[r].sleeps = run[r].N - 1)
      /\ (run[r].result = "failure"
            => pc[r] = "done" /\ run[r].out \in FailedOut /\ run[r].acquires = run[r].N)

C1_Witness ==
  \E r \in Runners :
    /\ pc[r] = "done"
    /\ run[r].result = "failure"
    /\ run[r].N = 3
    /\ run[r].acquires = 3
    /\ run[r].sleeps = 2
    /\ run[r].callbacks = 3

C4_CancelCleansUp ==
  \A r \in Runners :
    ctx[r].exit = "cancel" =>
      /\ (ctx[r].open => ctx[r].ctxCloseCalled)
      /\ (ctx[r].page = "open" => ctx[r].pageCloseCalled)

\* C5: an error raised by page.close() or context.close() never leaves the
\* scope and never replaces the outcome of the body, and after a failing
\* page.close() the context close is still attempted.
CancelledInCleanup(r) == ctx[r].exit = "cancel" /\ ctx[r].body # "cancel"

C5_CloseErrorsSwallowed ==
  \A r \in Runners :
    /\ (ctx[r].pageCloseRaised /\ ctx[r].exit = "none" => pc[r] = "close_ctx")
    /\ (ctx[r].exit # "none" /\ ~CancelledInCleanup(r)
          /\ (ctx[r].pageCloseRaised \/ ctx[r].ctxCloseRaised)
          => /\ ctx[r].exit = ctx[r].body
             /\ (ctx[r].pageCloseRaised => ctx[r].ctxCloseCalled)
             /\ (ctx[r].body = "success"
                   => run[r].result = "success" /\ run[r].ret = run[r].res)
             /\ (ctx[r].body = "fail" => run[r].last_error[1] = "result"))

C5_Witness ==
  \E r \in Runners :
    /\ ctx[r].exit = "success"
    /\ ctx[r].pageCloseRaised
    /\ ctx[r].ctxCloseRaised
    /\ run[r].result = "success"

\* C6: whatever the interleaving of initialize(), create_stealth_context()
\* and close(), at most one launched browser is alive, the manager holds it,
\* and a browser is started only under the lock while none is held.
C6_OneBrowser ==
  /\ alive <= 1
  /\ (alive = 1 => browser # None /\ bproc.alive)
  /\ \A t \in Tasks :
       pc[t] \in {"init_start", "init_launch"} =>
         lock = t /\ browser = None /\ alive = 0

\* one task is launching while another waits for the lock in initialize()
C6_Witness ==
  \E r \in Runners :
    /\ pc["m"] = "init_launch"
    /\ pc[r] = "init_acq"
    /\ run[r].attempt = 1

\* C7: close() never closes a browser or stops a driver that it already
\* closed or stopped, a close() with nothing running changes nothing, and
\* when a close() returns the manager holds no browser and no driver.
CloseReturns ==
  /\ pc["m"] \in {"close_acq", "close_browser", "close_stop"}
  /\ pc'["m"] = "idle"
  /\ mgr'.outcome = "returned"

C7_CloseIdempotent ==
  /\ [](bproc.closes <= 1 /\ drv.stops <= 1)
  /\ [][CloseReturns => browser' = None /\ playwright' = None]_vars
  /\ [][(pc["m"] = "close_acq" /\ pc'["m"] # "close_acq"
           /\ browser = None /\ playwright = None)
          => (CloseReturns /\ UNCHANGED <<browser, playwright, bproc, drv, alive, running, ctx>>)]_vars

\* a second close() is under way after a close() that closed and stopped
C7_Witness ==
  /\ pc["m"] = "close_acq"
  /\ bproc.closes = 1
  /\ drv.stops = 1
  /\ browser = None
  /\ playwright = None

\* C8: within one extract the stages run as a waterfall, network, then
\* script-state, then DOM: each at most once and in that order, a stage only
\* after every earlier stage returned nothing; when the network stage yields
\* a candidate no other stage runs and the result names the network layer.
Waterfall == <<"network", "javascript", "dom">>

C8_Waterfall ==
  /\ Len(calls) <= Len(Waterfall)
  /\ calls = SubSeq(Waterfall, 1, Len(calls))
  /\ Len(outs) \in {Len(calls) - 1, Len(calls)}
  /\ Len(outs) <= Len(calls)
  /\ \A i \in 1..(Len(calls) - 1) : outs[i] = "nothing"
  /\ (ppc = "p_done" => Len(outs) = Len(calls))
  /\ (Len(outs) >= 1 /\ outs[1] = "found"
        => /\ calls = <<"network">>
           /\ ppc = "p_done"
           /\ presult.success
           /\ presult.layer_used = "network")

C8_Witness ==
  /\ ppc = "p_done"
  /\ calls = <<"network">>
  /\ outs = <<"found">>
  /\ presult.layer_used = "network"
  /\ presult.filesize = 2000000
  /\ Len(captured.pipeline) = 2

\* C9: every successful ExtractionResult returned by extract had its URL and
\* size given to FileValidator.validate_extracted_url before it was built.
C9_EverySuccessValidated ==
  (ppc = "p_done" /\ presult.success)
    => \E i \in DOMAIN checked : checked[i] = <<presult.download_url, presult.filesize>>

\* C10: whatever a stage returned, valid or not for validate_extracted_url,
\* _build_result makes a successful result carrying that URL; a failed
\* validation never makes the result a failure.
Built == ppc = "p_done" /\ presult.layer_used \in Range(Waterfall)

C10_ValidationAdvisory ==
  /\ (ppc = "p_done" /\ outs # <<>> /\ outs[Len(outs)] = "found"
        => /\ presult.success
           /\ presult.layer_used = calls[Len(calls)]
           /\ checked = << <<presult.download_url, presult.filesize>> >>)
  /\ (ppc = "p_done" /\ checked # <<>>
        => /\ presult.success
           /\ presult.download_url = checked[1][1]
           /\ presult.error = "None")

\* a stage returned a URL that fails validation, and it is returned
C10_Witness ==
  /\ Built
  /\ presult.success
  /\ ~validate_extracted_url(presult.download_url, presult.filesize)[1]
  /\ validate_extracted_url(presult.download_url, presult.filesize)[2] = "Not a CDN URL"

\* C11: after all three stages returned nothing, extract looks at its own
\* listener exactly once more; it returns a success taken from that list when
\* the list holds a candidate at that moment, and the 'could not extract'
\* failure only when the list is empty at that look.
AllNothing == <<"nothing", "nothing", "nothing">>

C11_LateCheck ==
  /\ Len(late) <= 1
  /\ (late # <<>> => ppc = "p_done" /\ outs = AllNothing)
  /\ (ppc = "p_done" /\ outs = AllNothing
        => /\ Len(late) = 1
           /\ IF late[1] # <<>>
              THEN /\ presult.success
                   /\ presult.layer_used = "network_late"
                   /\ \E i \in DOMAIN late[1] :
                        /\ late[1][i].url = presult.download_url
                        /\ late[1][i].content_length = presult.filesize
              ELSE presult = Failure("Could not extract download link"))
  /\ (presult.error = "Could not extract download link" => late = << <<>> >>)

\* all stages returned nothing, the DOM stage's own listener holds nothing,
\* and the late look finds a candidate in the pipeline's list
C11_Witness ==
  /\ ppc = "p_done"
  /\ outs = AllNothing
  /\ captured.dom = <<>>
  /\ Len(late) = 1
  /\ late[1] # <<>>
  /\ presult.success
  /\ presult.layer_used = "network_late"

\* C12: the pipeline's listener is on the page before page.goto starts and
\* while any stage runs, the DOM stage's listener while that stage runs, and
\* once extract has returned or was left by an exception no listener of the
\* attempt is on the page.
C12_ListenerScope ==
  /\ (ppc \in AwaitPcs => "pipeline" \in listeners)
  /\ (ppc \in DomPcs <=> "dom" \in listeners)
  /\ (ppc \in {"p_ready", "p_done", "p_cancelled"} => listeners = {})

C12_Witness ==
  /\ ppc = "p_done"
  /\ calls = Waterfall
  /\ outs[3] = "found"
  /\ presult.layer_used = "dom"
  /\ listeners = {}

\* C13: a response is classified as a candidate exactly when its size is at
\* least min_file_size and either its content type is a media type or its
\* host matches a CDN pattern and its query has a signature parameter; every
\* captured entry has size >= min_file_size, and no captured entry comes from
\* a non-CDN host with a non-media content type.
MediaType(ct) == \E mt \in media_types : Contains(Lower(ct), mt)
C13_Candidate(ct, n, u) ==
  /\ n >= MinFileSize
  /\ MediaType(ct) \/ (is_cdn_url(u) /\ has_signature_params(u))
C13_Table ==
  [resp \in Responses |->
     C13_Candidate(resp.content_type, ParseContentLength(resp.content_length), resp.url)]
C13_Foreign ==
  {CapturedRequest(resp) : resp \in {r \in Responses :
                                       ~is_cdn_url(r.url) /\ ~MediaType(r.content_type)}}
CaptureLists == {"pipeline", "dom"}

C13_Classification ==
  /\ \A resp \in Responses : IsMedia[resp] = C13_Table[resp]
  /\ \A l \in CaptureLists : \A i \in DOMAIN captured[l] :
       /\ captured[l][i].content_length >= MinFileSize
       /\ \E resp \in Responses : C13_Table[resp] /\ captured[l][i] = CapturedRequest(resp)
       /\ captured[l][i] \notin C13_Foreign

\* two responses were handled: the one captured is from a CDN host with a
\* signature and a non-media content type
C13_Witness ==
  /\ nresp = 2
  /\ pending = EmptyBag
  /\ captured.pipeline =
       <<CapturedRequest(Resp(U_cdn_sig, T_html, Header("int", 5000000), "None"))>>

\* C14: get_best_url returns None for an empty list; when an entry has a
\* video content type it returns a video entry of maximal size among the
\* video entries (whatever the other entries are); otherwise it returns an
\* entry of maximal size.
C14_BestOf(cap) ==
  LET best  == get_best_url(cap)
      video == {i \in DOMAIN cap : IsVideo[cap[i].content_type]}
  IN IF cap = <<>> THEN best = NoCapture
     ELSE /\ \E i \in DOMAIN cap : cap[i] = best
          /\ IF video # {}
             THEN /\ IsVideo[best.content_type]
                  /\ \A i \in video : cap[i].content_length <= best.content_length
             ELSE \A i \in DOMAIN cap : cap[i].content_length <= best.content_length

C14_BestUrl == \A l \in CaptureLists : C14_BestOf(captured[l])

\* the network stage returned the 2 MB video although a 50 MB archive was
\* captured as well
C14_Witness ==
  /\ ppc = "p_done"
  /\ calls = <<"network">>
  /\ presult.filesize = 2000000
  /\ presult.filetype = "video"
  /\ Len(captured.pipeline) = 2
  /\ \E i \in DOMAIN captured.pipeline : captured.pipeline[i].content_length = 50000000

\* C15: a capture list only grows, by one entry at its end for one handled
\* candidate response of its own listener; it is never cleared or rewritten
\* while its NetworkLayer is in use, and extract and extract_via_dom each
\* start from an empty list of a new NetworkLayer.
NewLayer(l) ==
  \/ l = "pipeline" /\ ppc = "p_ready" /\ ppc' = "goto"
  \/ l = "dom" /\ ppc = "js" /\ ppc' = "dom_prep"
  \/ ppc \in {"p_done", "p_cancelled"} /\ ppc' = "p_ready"

AppendOnly(l) ==
  \/ captured'[l] = captured[l]
  \/ \E h \in BagToSet(pending) :
       /\ h.l = l
       /\ IsMedia[h.resp]
       /\ pending' = pending (-) SetToBag({h})
       /\ captured'[l] = Append(captured[l], CapturedRequest(h.resp))
       /\ \A o \in CaptureLists \ {l} : captured'[o] = captured[o]
  \/ NewLayer(l) /\ captured'[l] = <<>>

C15_AppendOnly ==
  /\ [][\A l \in CaptureLists : AppendOnly(l)]_vars
  /\ [](ppc = "goto" /\ nresp = 0 => captured.pipeline = <<>>)
  /\ [](ppc = "dom_prep" /\ nresp = 0 => captured.dom = <<>>)

\* both listeners handled the same response, each appending to its own list,
\* after the pipeline's list already held another entry
C15_Witness ==
  /\ Len(captured.pipeline) = 2
  /\ Len(captured.dom) = 1
  /\ captured.dom[1] = captured.pipeline[2]
  /\ captured.dom[1] # captured.pipeline[1]

\* C16: validate_extracted_url(url, size) is valid exactly when the URL is a
\* CDN match with a signature parameter and the size is unknown or at least
\* min_file_size; is_valid_download_url(url) is true exactly when the URL is
\* a CDN match with a signature parameter; a size below the minimum is
\* rejected with the size-related reason.
C16_Validation ==
  /\ (val.pc = "returned" /\ val.op = "validate_extracted_url"
        => /\ val.out[1] = (/\ is_cdn_url(val.url)
                            /\ has_signature_params(val.url)
                            /\ (val.size = NoSize \/ val.size >= MinFileSize))
           /\ (val.size # NoSize /\ val.size < MinFileSize
                 => ~val.out[1] /\ val.out[2] = "File too small"))
  /\ (val.pc = "returned" /\ val.op = "is_valid_download_url"
        => val.out[1] = (is_cdn_url(val.url) /\ has_signature_params(val.url)))

\* C17: calculate_delay returns min(base_delay * exponential_base^attempt,
\* max_delay), times the jitter factor when jitter is on.  Without jitter
\* the delay is at most max_delay, delay(0) is min(base_delay, max_delay), and
\* for exponential_base >= 1 the delay of the next attempt index is not
\* smaller; with jitter the factor is drawn from the jitter range and the
\* delay lies between jitterLow and jitterHigh times the clamped value.
C17_Clamped ==
  Min(calc.base_delay * Pow(calc.exponential_base, calc.attempt), calc.max_delay)
C17_NextDelay ==
  calculate_delay(calc.attempt + 1, calc.base_delay, calc.max_delay,
                  calc.exponential_base, FALSE, 100)
C17_Common ==
  /\ (~calc.jitter
        => /\ calc.delay = C17_Clamped
           /\ calc.delay <= calc.max_delay
           /\ (calc.exponential_base >= 1 => C17_NextDelay >= calc.delay))
  /\ (calc.jitter
        => /\ calc.jitter_range[1] <= calc.jitter_factor
           /\ calc.jitter_factor <= calc.jitter_range[2]
           /\ 100 * calc.delay = calc.jitter_factor * C17_Clamped
           /\ calc.jitter_range[1] * C17_Clamped <= 100 * calc.delay
           /\ 100 * calc.delay <= calc.jitter_range[2] * C17_Clamped)

\* as stated: without jitter delay(0) = base_delay
C17_Original ==
  calc.pc = "returned"
    => /\ C17_Common
       /\ (~calc.jitter /\ calc.attempt = 0 => calc.delay = calc.base_delay)

C17_DelayFormula ==
  calc.pc = "returned"
    => /\ C17_Common
       /\ (~calc.jitter /\ calc.attempt = 0
             => calc.delay = Min(calc.base_delay, calc.max_delay))

\* delay(0) of a base delay above max_delay is max_delay
C17_Witness ==
  /\ calc.pc = "returned"
  /\ ~calc.jitter
  /\ calc.attempt = 0
  /\ calc.base_delay = 40000
  /\ calc.max_delay = 30000
  /\ calc.delay = 30000

\* C18: with jitter off, max_delay = 10 s and exponential_base = 2,
\* calculate_delay(3) is min(8 * base_delay, 10 s): it is 10 s exactly for
\* the base delays of at least 1.25 s.
C18_Case ==
  /\ calc.pc = "returned"
  /\ ~calc.jitter
  /\ calc.max_delay = 10000
  /\ calc.exponential_base = 2
  /\ calc.attempt = 3

\* as stated: 10 s for every base delay
C18_Original == C18_Case => calc.delay = 10000

C18_ClampAtThree ==
  C18_Case => /\ calc.delay = Min(8 * calc.base_delay, 10000)
              /\ (calc.delay = 10000 <=> calc.base_delay >= 1250)

C18_Witness ==
  /\ C18_Case
  /\ calc.base_delay = 1250
  /\ calc.delay = 10000

\* C19: in async_retry and in RetryContext, an exception of a fatal class
\* ends the run at the call that raised it: it is the exception raised to
\* the caller, no delay follows that call and the operation is not called
\* again, also when the exception matches the retryable classes.
C19_FatalEnds(x) ==
  \A i \in DOMAIN x.outcomes :
    (x.outcomes[i] # "ok" /\ isinstance(x.outcomes[i], x.cfg.fatal_exceptions))
      => /\ i = Len(x.outcomes)
         /\ x.pc = "raised"
         /\ x.out = <<"raise", x.outcomes[i]>>
         /\ x.trace[Len(x.trace)] = "call"
         /\ Len(x.delays) = i - 1

C19_FatalImmediate == C19_FatalEnds(rt) /\ C19_FatalEnds(rc)

\* the second call raises a KeyError, fatal as a LookupError and retryable
\* by name, with one attempt of the budget left
C19_Witness ==
  /\ rt.pc = "raised"
  /\ rt.cfg.max_attempts = 3
  /\ rt.cfg.fatal_exceptions = {"LookupError"}
  /\ "KeyError" \in rt.cfg.retry_exceptions
  /\ rt.outcomes = <<"TimeoutError", "KeyError">>
  /\ rt.out = <<"raise", "KeyError">>

\* C20: async_retry with max_attempts = N >= 1 whose operation raises a
\* non-fatal exception at every call makes exactly N calls with N-1 delays
\* and raises the exception of the last call; a call that succeeds ends the
\* run with its value; every exception that is not fatal is retried.
C20_NonFatal(i) ==
  rt.outcomes[i] # "ok" /\ ~isinstance(rt.outcomes[i], rt.cfg.fatal_exceptions)

C20_RetryBudget ==
  LET N == rt.cfg.max_attempts
  IN /\ ((rt.pc = "raised" /\ N >= 1 /\ (\A i \in DOMAIN rt.outcomes : C20_NonFatal(i)))
           => /\ Len(rt.outcomes) = N
              /\ Len(rt.delays) = N - 1
              /\ rt.out = <<"raise", rt.outcomes[N]>>)
     /\ \A i \in DOMAIN rt.outcomes :
          rt.outcomes[i] = "ok"
            => /\ i = Len(rt.outcomes)
               /\ rt.pc = "returned"
               /\ rt.out = <<"return", "value">>
               /\ rt.trace[Len(rt.trace)] = "call"
     /\ \A i \in DOMAIN rt.outcomes :
          C20_NonFatal(i) /\ i < N => i < Len(rt.outcomes) \/ rt.pc = "sleep"

\* C21: generate is deterministic in its seed: two calls given the same seed
\* string, the empty string included, return Identity values equal in every
\* field, whatever was drawn or generated in between.
C21_Deterministic ==
  \A a, b \in Attempts :
    (/\ att[a].fingerprint # <<>>
     /\ att[b].fingerprint # <<>>
     /\ att[a].seed # NoSeed
     /\ att[a].seed = att[b].seed)
      => att[a].fingerprint = att[b].fingerprint

\* C22: every Identity has its GPU pair in the catalog of its platform, names
\* the same OS in the user-agent and in the client hints, has (timezone,
\* languages, locale) equal to one row of the timezone catalog with the locale
\* the first language, and a screen at least as wide and as high as the viewport.
C22_SameOs(f, platform, versions, gpus, name) ==
  /\ f.platform = platform
  /\ <<f.webgl_vendor, f.webgl_renderer>> \in Range(gpus)
  /\ \E v \in Range(versions) :
       /\ f.user_agent[2] = v[2]
       /\ f.client_hints.sec_ch_ua_platform_version = v[3]
  /\ f.client_hints.sec_ch_ua_platform = name

C22_Consistent(f) ==
  /\ \/ C22_SameOs(f, "Win32", WINDOWS_VERSIONS, WEBGL_CONFIGS_WINDOWS, "Windows")
     \/ C22_SameOs(f, "MacIntel", MACOS_VERSIONS, WEBGL_CONFIGS_MAC, "macOS")
  /\ \E row \in Range(TIMEZONES) :
       /\ f.timezone = row[1]
       /\ f.languages = row[2]
       /\ f.locale = row[3]
  /\ f.locale = f.languages[1]
  /\ f.screen.width >= f.viewport.width
  /\ f.screen.height >= f.viewport.height

C22_CrossField ==
  \A a \in Attempts :
    att[a].fingerprint # <<>> => C22_Consistent(att[a].fingerprint[1])

\* a Mac identity and a Windows identity, one with a screen higher than its viewport
C22_Witness ==
  /\ att["a1"].fingerprint # <<>>
  /\ att["a2"].fingerprint # <<>>
  /\ att["a1"].fingerprint[1].platform = "MacIntel"
  /\ att["a2"].fingerprint[1].platform = "Win32"
  /\ att["a1"].fingerprint[1].screen.height > att["a1"].fingerprint[1].viewport.height

\* C26: concurrent attempts share no mutable state but the browser handle and
\* its lock: what an attempt draws for its human delays is what it draws when
\* it runs alone, whatever the other attempt does in between.
RECURSIVE Stream(_, _)
Stream(x, k) == IF k = 0 THEN x ELSE Stream(Advance(x), k - 1)

C26_Alone(x0, k) ==
  human_delay(HumanArgs[k][1], HumanArgs[k][2], Stream(Identity(x0).next, k))

C28_Original ==
  hd.pc \in {"sleep", "done"} /\ hd.out # "ValueError"
    => 10000 <= hd.slept /\ hd.slept <= hd.base_ms * 300

\* C28 (amended): for base_ms > 0 the duration slept by human_delay is in
\* [100 ms, 3 * base_ms] when 3 * base_ms >= 100 ms, and is exactly 100 ms when
\* 3 * base_ms < 100 ms (the lower clamp is applied last); it is never below
\* 100 ms.  For base_ms = 0 the call raises ValueError without sleeping.
C28_Clamped ==
  /\ hd.pc \in {"sleep", "done"} /\ hd.out # "ValueError"
       => /\ hd.base_ms > 0
          /\ 10000 <= hd.slept
          /\ (hd.base_ms * 300 >= 10000 => hd.slept <= hd.base_ms * 300)
          /\ (hd.base_ms * 300 < 10000 => hd.slept = 10000)
  /\ hd.out = "ValueError" => hd.base_ms = 0 /\ hd.slept = 0

\* human_delay(33, ...) has slept 100 ms, more than 3 * 33 ms
C28_Witness ==
  /\ hd.pc = "done"
  /\ hd.out = "returned"
  /\ hd.base_ms = 33
  /\ hd.slept = 10000

\* C30: wait_for_countdown returns only when the countdown element has
\* disappeared, its text says that no time is left, or max_wait has elapsed,
\* and one call never waits longer than max_wait plus one polling interval.
C30_Countdown ==
  cd.pc = "returned" =>
    /\ cd.why \in {"no countdown", "disappeared", "zero", "max_wait"}
    /\ (cd.why = "zero" => Remaining(cd.text) = 0)
    /\ cd.now <= cd.max_wait + 1

\* C23: the wait after the k-th failed attempt is 2*k seconds (2, 4, 6, ...:
\* linear, each 2 seconds longer than the one before), there is one wait after
\* every failed attempt but the last, and the seeds of the attempts of one
\* run differ from one another.
C23_LinearDelays ==
  \A r \in Runners :
    LET rr == run[r] IN
    /\ \A k \in DOMAIN rr.delays : rr.delays[k] = 2 * k
    /\ \A k \in DOMAIN rr.delays : k > 1 => rr.delays[k] - rr.delays[k - 1] = 2
    /\ Len(rr.delays) <= rr.N - 1 \/ rr.N = 0
    /\ (pc[r] = "sleep" => Len(rr.delays) = rr.attempt + 1)
    /\ (pc[r] \notin {"ready", "sleep"} /\ rr.result # "cancelled"
          => Len(rr.delays) = rr.attempt)
    /\ Len(rr.seeds) = rr.acquires
    /\ \A i, j \in DOMAIN rr.seeds : i # j => rr.seeds[i] # rr.seeds[j]

\* the fourth attempt of a run is about to start after waits of 2, 4 and 6 s
C23_Witness ==
  \E r \in Runners :
    /\ run[r].delays = <<2, 4, 6>>
    /\ Len(run[r].seeds) = 4
    /\ run[r].attempt = 3

\* C25: whatever fails (launch, context creation, setup, the callback),
\* extract_with_stealth ends with a returned result, success or failure, and
\* raises nothing to its caller (the cancellation of the calling task apart);
\* an attempt that raised is a failed attempt: when it is not the last it is
\* followed by a delay and by another attempt, which starts without a context
\* and opens its own.
C25_Raised(r) == run[r].out \in {"raise", "setup", "init"}

C25_FailuresAreData ==
  \A r \in Runners :
    LET rr == run[r] IN
    /\ rr.result \in {"none", "success", "failure", "cancelled"}
    /\ (rr.result = "cancelled" => rr.cancelled)
    /\ (pc[r] = "done" /\ ~rr.cancelled => rr.result \in {"success", "failure"})
    /\ (C25_Raised(r) /\ pc[r] \notin {"close_page", "close_ctx"} /\ rr.result # "cancelled"
          => /\ rr.last_error = <<"exc", rr.attempt>>
             /\ IF rr.attempt < rr.N - 1
                THEN pc[r] = "sleep" /\ rr.result = "none"
                ELSE pc[r] = "done" /\ rr.result = "failure")
    /\ (pc[r] \in {"init_acq", "init_start", "init_launch", "new_context"}
          => rr.context = None /\ rr.page = None /\ ~ctx[r].made)
    /\ (rr.context # None => ctx[r].made /\ ctx[r].cb <= 1)

\* the first attempt raised in the callback, the second could not launch the
\* browser, the third could not create its context: the call returns a failure
C25_Witness ==
  \E r \in Runners :
    /\ pc[r] = "done"
    /\ run[r].result = "failure"
    /\ run[r].N = 3
    /\ run[r].out = "setup"
    /\ run[r].last_error = <<"exc", 2>>
    /\ run[r].callbacks = 1
    /\ run[r].opened = 1
    /\ faults = 2

\* C24: the failed result of an attempt, which extract_with_stealth reports
\* as the last error, carries the message of what made the attempt fail: the
\* navigation timeout or connection failure when page.goto raised.
C24_LastError ==
  (ppc = "p_done" /\ ~presult.success /\ nav # "None") => presult.error = nav

\* C27: a returned ExtractionResult is well formed.  A success has a
\* non-empty download URL, no error, and layer_used names the stage that
\* returned the URL (network_late: the look at the listener after three empty
\* stages); a failure has a non-empty error, no URL and no layer.
C27_Producer ==
  IF presult.layer_used = "network_late"
  THEN /\ outs = <<"nothing", "nothing", "nothing">>
       /\ late # <<>>
       /\ get_best_url(late[Len(late)]) # NoCapture
       /\ presult.download_url = get_best_url(late[Len(late)]).url
  ELSE /\ presult.layer_used \in {"network", "javascript", "dom"}
       /\ Len(outs) = Len(calls)
       /\ calls[Len(calls)] = presult.layer_used
       /\ outs[Len(outs)] = "found"

C27_WellFormed ==
  ppc = "p_done" =>
    IF presult.success
    THEN /\ presult.download_url \notin {NoneUrl, EmptyUrl}
         /\ presult.error = "None"
         /\ C27_Producer
    ELSE /\ presult.error \notin {"None", ""}
         /\ presult.download_url = NoneUrl
         /\ presult.layer_used = "None"

\* a success built by the script-state stage from a URL that fails validation
C27_Witness ==
  /\ ppc = "p_done"
  /\ presult.success
  /\ presult.layer_used = "javascript"
  /\ presult.download_url = U_cdn_nosig
  /\ presult.error = "None"
  /\ calls = <<"network", "javascript">>

\* C29: run on the same RetryConfig and on an operation with the same
\* outcomes, the async_retry wrapper and the loop driven by RetryContext
\* invoke the operation the same number of times, compute their delays from
\* the same attempt indices in the same order, and end the same way.
C29_SameRun ==
  /\ Finished(rt)
  /\ Finished(rc)
  /\ rt.cfg = rc.cfg
  /\ \A i \in DOMAIN rt.outcomes \cap DOMAIN rc.outcomes : rt.outcomes[i] = rc.outcomes[i]

C29_Equivalent ==
  C29_SameRun =>
    /\ Len(rt.outcomes) = Len(rc.outcomes)
    /\ rt.indices = rc.indices
    /\ rt.delays = rc.delays
    /\ rt.out = rc.out

\* ---------------------------------------------------------------------------
\* C31: the DOM stage makes at most 3 clicks on the main frame, each on the
\* first visible, non-disabled element in selector priority order; it stops at
\* the first cycle after which its listener holds a candidate, makes no click
\* once no button is found, and re-handles modals and countdowns after every
\* click that captured nothing.
C31_Usable(page, b) ==
  LET e == query_selector_all(page, b[1])[b[2]]
  IN e.visible = "yes" /\ e.disabled = NoAttr

C31_Buttons(page) ==
  {Button(s, i) : s \in {1, Len(DOWNLOAD_SELECTORS)}, i \in 1..2}
    \cap {b \in (1..Len(DOWNLOAD_SELECTORS)) \X (1..2) :
            b[2] <= Len(query_selector_all(page, b[1]))}

C31_First(page, b) ==
  /\ b \in C31_Buttons(page)
  /\ C31_Usable(page, b)
  /\ \A a \in C31_Buttons(page) :
       (a[1] < b[1] \/ (a[1] = b[1] /\ a[2] < b[2])) => ~C31_Usable(page, a)

C31_DomStage ==
  /\ Len(fb.clicked) <= 3
  /\ \A i \in DOMAIN fb.clicked : C31_First(fb.page, fb.clicked[i])
  /\ (fb.held => fb.pc = "returned" /\ fb.out = "captured")
  /\ (fb.pc = "iframes" => fb.button = NoButton \/ Len(fb.clicked) = 3)
  /\ (fb.pc \in {"find", "click", "iframes"} => fb.rehandled = Len(fb.clicked))

\* ---------------------------------------------------------------------------
\* C32: in the script-state stage as the pipeline runs it, the internal API
\* sequence is attempted whenever the share id is recoverable from the share
\* URL and a session token is present in page state; and the download-link
\* request is issued only after the share-listing request succeeded and only
\* when file id, user key and share id are all present.
C32_DownloadGuarded ==
  \A i \in DOMAIN api.requests :
    api.requests[i] = "share/download" =>
      /\ i = 2 /\ api.requests[1] = "share/list"
      /\ api.share_info # <<>>
      /\ api.share_info[1].errno = 0
      /\ _extract_file_from_share(api.share_info[1]).fs_id # 0
      /\ api.share_info[1].uk # 0
      /\ api.share_info[1].shareid # 0

C32_ApiSequence ==
  /\ (api.pc = "returned" /\ api.caller = "pipeline"
        /\ _extract_surl(api.share_url) # <<>> /\ api.page_token
          => api.requests # <<>> /\ api.requests[1] = "share/list")
  /\ C32_DownloadGuarded

\* ---------------------------------------------------------------------------
\* C33: every simulated click lands inside the target's bounding box: the
\* point computed by human_click and by click_with_human_behavior has
\* x in [box.x, box.x + width] and y in [box.y, box.y + height], for every box.
C33_Inside(box, p) ==
  /\ box.x <= p.x /\ p.x <= box.x + box.width
  /\ box.y <= p.y /\ p.y <= box.y + box.height

C33_ClickInside == clk.out = "clicked" => C33_Inside(clk.box, clk.point)

\* ---------------------------------------------------------------------------
\* C34: the shared browser is never closed while a context acquired from it
\* is still open: close() takes effect only when no scoped context of the
\* browser exists, and every new_context call is made on a live (non-null,
\* not closed) browser handle.
C34_NoCloseUnderContext ==
  [][(bproc.alive /\ ~bproc'.alive => \A r \in Runners : ~ctx[r].open)
     /\ (\A r \in Runners :
           pc[r] # "new_context" /\ pc'[r] = "new_context"
             => browser' # None /\ bproc'.alive)]_vars

\* ---------------------------------------------------------------------------
\* C35: no Playwright driver started by initialize() is ever orphaned: every
\* started driver is still referenced by the manager or has been stopped, and
\* at most one started driver exists at a time.
C35_NoOrphanDriver ==
  /\ running <= 1
  /\ (running = 1 => playwright # None /\ drv.running)

\* ---------------------------------------------------------------------------
\* C36: a navigation error in the network stage does not end the attempt: the
\* stage reports nothing found, the script-state stage runs next and the DOM
\* stage after it when it found nothing either, and a failure of the attempt
\* carries the generic message, not the navigation error.
C36_NavigationSwallowed ==
  nav # "None" =>
    /\ Len(outs) >= 1 /\ outs[1] = "nothing"
    /\ Len(calls) >= 2 /\ calls[1] = "network" /\ calls[2] = "javascript"
    /\ (ppc = "p_done" => Len(outs) >= 2)
    /\ (Len(outs) >= 2 /\ outs[2] = "nothing" => Len(calls) = 3 /\ calls[3] = "dom")
    /\ (ppc = "p_done" /\ ~presult.success
          => /\ presult.error = "Could not extract download link"
             /\ presult.error # nav
             /\ outs = <<"nothing", "nothing", "nothing">>)

\* page.goto timed out, the two other stages ran and found nothing
C36_Witness ==
  /\ nav = "Timeout 30000ms exceeded"
  /\ ppc = "p_done"
  /\ ~presult.success
  /\ calls = <<"network", "javascript", "dom">>
  /\ presult.error = "Could not extract download link"

\* ---------------------------------------------------------------------------
\* C37: for a URL whose host is not on the supported-domain allow-list,
\* extract returns a failure before it attaches a listener or navigates, so no
\* attempt navigates to the host; extract_with_stealth treats the failure
\* like any other: it makes all max_retries attempts, each with a context of
\* its own, with the delays between them.
C37_Host(u) ==
  LET d == Lower(u.netloc)
  IN IF StartsWith(d, S_www) THEN SubSeq(d, 5, Len(d)) ELSE d

C37_OffList(u) ==
  \A supported \in supported_domains :
    C37_Host(u) # supported /\ ~EndsWith(C37_Host(u), <<".">> \o supported)

C37_OffListUrls == {u \in ShareUrls : C37_OffList(u)}

C37_UnsupportedHost ==
  \A r \in Runners :
    LET rr == run[r] IN
    (pc[r] # "ready" /\ rr.url \in C37_OffListUrls) =>
      /\ rr.navigations = 0
      /\ (rr.out = "fail" => rr.res = InvalidUrl)
      /\ rr.result # "success"
      /\ rr.callbacks <= rr.opened /\ rr.opened <= rr.acquires /\ rr.acquires <= rr.N
      /\ (rr.result = "failure" => rr.attempt = rr.N - 1)
      /\ (pc[r] = "done" /\ ~rr.cancelled
            => /\ rr.result = "failure"
               /\ rr.acquires = rr.N
               /\ rr.sleeps = rr.N - 1
               /\ rr.delays = [k \in 1..(rr.N - 1) |-> 2 * k])

\* three attempts on an unsupported host: three contexts, two delays
C37_Witness ==
  \E r \in Runners :
    /\ pc[r] = "done"
    /\ run[r].url \in C37_OffListUrls
    /\ run[r].N = 3
    /\ run[r].opened = 3
    /\ run[r].callbacks = 3
    /\ run[r].delays = <<2, 4>>
    /\ run[r].result = "failure"
    /\ run[r].res = InvalidUrl

\* ---------------------------------------------------------------------------
\* C38: a response whose content-length header is missing, empty or not an
\* integer is given the size 0 and is never captured, whatever its
\* content-type, host and query parameters; a failure while the headers are
\* read drops the response and leaves the capture list and the caller as
\* they were.
C38_Unsized(h) == h.kind \in {"missing", "empty", "text"}

C38_NoSizeNoCapture ==
  /\ ~nl.raised
  /\ \A i \in DOMAIN nl.log :
       LET e == nl.log[i] IN
       /\ (C38_Unsized(e.resp.content_length)
             => ParseContentLength(e.resp.content_length) = 0 /\ e.after = e.before)
       /\ (~e.ok => e.after = e.before)
       /\ (e.after # e.before
             => e.after = Append(e.before, CapturedRequest(e.resp))
                /\ ParseContentLength(e.resp.content_length) >= MinFileSize)
  /\ \A i \in DOMAIN nl.captured_urls : nl.captured_urls[i].content_length >= MinFileSize

\* a response of large size whose headers could not be read was dropped; then
\* a video response from the CDN with a signed URL and a content-length that
\* is not an integer was seen and not captured
C38_Witness ==
  /\ Len(nl.log) = 2
  /\ ~nl.log[1].ok
  /\ nl.log[1].resp = Resp(U_cdn_sig, T_mp4, Header("int", 5000000), "None")
  /\ nl.log[2].ok
  /\ nl.log[2].resp = Resp(U_cdn_sig, T_mp4, Header("text", 5000000), "None")
  /\ nl.captured_urls = <<>>

\* ---------------------------------------------------------------------------
\* C39: in the bot handler at most one extraction per (user, URL) key is in
\* flight at any time, and the key is removed from active_extractions on every
\* exit path after it was added (success, failed result, exception,
\* cancellation, failure to send the processing message): a key never stays
\* blocked after its extraction ended.
C39_InFlight(key) ==
  {t \in HandlerTasks :
     hu.task[t].key = key /\ hu.task[t].pc \in {"answer_processing", "run_extraction"}}

C39_KeyReleased ==
  \A key \in ExtractionKeys :
    /\ Cardinality(C39_InFlight(key)) <= 1
    /\ (key \in hu.active_extractions <=> C39_InFlight(key) # {})

\* ---------------------------------------------------------------------------
\* C40: RetryContext keeps 0 <= attempt <= max_attempts, attempt is the number
\* of exceptions handled so far, and should_retry() is true exactly while
\* attempt < max_attempts; with a budget of zero attempts the operation is never
\* invoked and the caller of async_retry or of the RetryContext loop still
\* receives a failure (an exception raised to it).
C40_Handled ==
  Cardinality({i \in DOMAIN rc.outcomes : rc.outcomes[i] # "ok"})

C40_Counter ==
  /\ 0 <= rc.attempt
  /\ rc.attempt <= rc.cfg.max_attempts
  /\ rc.attempt = C40_Handled
  /\ should_retry(rc) <=> rc.attempt < rc.cfg.max_attempts
  /\ rc.pc = "call" => should_retry(rc)

C40_Failure(r) ==
  r.cfg.max_attempts = 0 /\ Finished(r) => r.outcomes = <<>> /\ r.out[1] = "raise"

C40_RetryState ==
  /\ C40_Counter
  /\ C40_Failure(rt)
  /\ C40_Failure(rc)

====
